---- MODULE Spec2Model ----
(***************************************************************************)
(* A model of the translation core of mips_to_c (src/src/translate.py)     *)
(* and of its file reader (src/src/parse_file.py).                         *)
(*                                                                         *)
(* The module holds six state machines over disjoint groups of             *)
(* variables; each specification moves one group and leaves the others     *)
(* at their initial value:                                                 *)
(*   SpecType  - the Type union-find (Type.unify, Type.get_representative) *)
(*   SpecEval  - use accounting and printing of EvalOnceExpr / PhiExpr     *)
(*   Spec      - the graph driver, the block translator and assign_phis    *)
(*   SpecUnit  - single calls of StackInfo, RegInfo, equality, Type.str    *)
(*               and fold_mul_chains                                       *)
(*   SpecBlock - translate_node_body, one instruction at a time            *)
(*   SpecParse - parse_file, one line at a time                            *)
(***************************************************************************)
EXTENDS Integers, Sequences, FiniteSets, TLC

VARIABLES
    types,      \* SpecType: the Type objects created so far, by identity (index)
    tcall,      \* SpecType: the last Type operation called and what it returned
    mem,        \* the mutable objects of one translation: EvalOnceExprs,
                \* PhiExprs, the used_phis list, the StackInfo
    printed,    \* SpecEval: the last str() call and the text it returned
    prog,       \* Spec: the flow graph and the options translate_to_ast is given
    pc,         \* Spec: where translate_to_ast is: start, translate, done, raised
    exc,        \* Spec: the call whose exception left translate_to_ast, "" for none
    blocks,     \* Spec: node.block.block_info of every node
    passed,     \* Spec: the RegInfo every node's translation was called with
    pending,    \* Spec: the dominated nodes still to descend to, in order
    assign_phis_calls,  \* Spec: how many times assign_phis has been called
    unit,       \* SpecUnit: the last operation called, its inputs and its result
    frame,      \* SpecBlock: the function, the block being translated and the
                \* state of its translate_node_body call
    mips_file   \* SpecParse: the lines read so far, the MIPSFile they have
                \* built and the exception that ended parse_file

typeVars == <<types, tcall>>

evalVars == <<mem, printed>>

driverVars == <<prog, pc, exc, blocks, passed, pending, assign_phis_calls>>

unitVars == <<unit, frame, mips_file>>

vars == <<types, tcall, mem, printed, prog, pc, exc, blocks, passed, pending,
          assign_phis_calls, unit, frame, mips_file>>

(***************************************************************************)
(* Bounds of the model.                                                    *)
(***************************************************************************)
\* how many Type objects a behaviour creates
MaxTerms == 3
\* SpecEval: how many EvalOnceExpr objects a behaviour creates
MaxEvalOnce == 2
\* SpecEval: how many uses any one object is given
MaxUsages == 2

\* SpecUnit: the longest prologue a stack layout is read from
MaxPrologue == 3

\* SpecBlock: the number of instructions that follow the prologue
MaxInstrs == 3

\* the largest amount of a left shift handed to fold_mul_chains
MaxShift == 5

\* how many lines parse_file reads
MaxLines == 4

(***************************************************************************)
(* Python values.                                                          *)
(***************************************************************************)
\* Python's None for the Optional[int] / Optional[Type] fields of Type
None == 0

RECURSIVE BitAnd(_, _)
\* Python's a & b on non-negative integers
BitAnd(a, b) ==
    IF a = 0 \/ b = 0 THEN 0
    ELSE (IF a % 2 = 1 /\ b % 2 = 1 THEN 1 ELSE 0) + 2 * BitAnd(a \div 2, b \div 2)

\* Python's a & ~b on non-negative integers
BitAndNot(a, b) == a - BitAnd(a, b)

(***************************************************************************)
(* class Type                                                              *)
(***************************************************************************)
K_INT == 1
K_PTR == 2
K_FLOAT == 4
K_INTPTR == 3
K_ANY == 7
SIGNED == 1
UNSIGNED == 2
ANY_SIGN == 3

\* Type(kind, size, sign): the attrs constructor, uf_parent defaulting to None
Type(kind, size, sign) ==
    [kind |-> kind, size |-> size, sign |-> sign, uf_parent |-> None]

\* The static factory methods of Type, by name (bool is an alias of intish)
TypeFactory(f) ==
    CASE f = "any"    -> Type(K_ANY, None, ANY_SIGN)
      [] f = "intish" -> Type(K_INT, None, ANY_SIGN)
      [] f = "intptr" -> Type(K_INTPTR, None, ANY_SIGN)
      [] f = "ptr"    -> Type(K_PTR, 32, ANY_SIGN)
      [] f = "f32"    -> Type(K_FLOAT, 32, ANY_SIGN)
      [] f = "f64"    -> Type(K_FLOAT, 64, ANY_SIGN)
      [] f = "s32"    -> Type(K_INT, 32, SIGNED)
      [] f = "u32"    -> Type(K_INT, 32, UNSIGNED)
      [] f = "u64"    -> Type(K_INT, 64, UNSIGNED)
      [] f = "bool"   -> Type(K_INT, None, ANY_SIGN)

\* Type.of_size(size)
of_size(size) == Type(K_ANY, size, ANY_SIGN)

\* Every Type a factory call can return: the named factories, and of_size at
\* the sizes (in bits) a type term can have
FactoryTerms ==
    << TypeFactory("any"), TypeFactory("intish"), TypeFactory("intptr"),
       TypeFactory("ptr"), TypeFactory("f32"), TypeFactory("f64"),
       TypeFactory("s32"), TypeFactory("u32"), TypeFactory("u64"),
       TypeFactory("bool"),
       of_size(8), of_size(16), of_size(32), of_size(64) >>

RECURSIVE get_representative(_, _)
\* Type.get_representative on the object t of the heap ts: the representative
\* and the heap after the path compression (every object on the path from t
\* is re-parented to the representative)
get_representative(ts, t) ==
    IF ts[t].uf_parent = None
    THEN [ts |-> ts, rep |-> t]
    ELSE LET r == get_representative(ts, ts[t].uf_parent)
         IN  [ts |-> [r.ts EXCEPT ![t].uf_parent = r.rep], rep |-> r.rep]

\* unify taking the other type's kind instead of the AND of the two
UnifyKind_Widen(xk, yk, size) ==
    LET k1 == IF size \in {8, 16} THEN BitAndNot(yk, K_FLOAT) ELSE yk
    IN  IF size \in {8, 16, 64} THEN BitAndNot(k1, K_PTR) ELSE k1

\* unify clearing PTR for the sizes 8 and 16 only
UnifyKind_Ptr64(xk, yk, size) ==
    LET k0 == BitAnd(xk, yk)
    IN  IF size \in {8, 16} THEN BitAndNot(BitAndNot(k0, K_FLOAT), K_PTR) ELSE k0

\* The kind unify computes from two representatives and the merged size
UnifyKind(xk, yk, size) ==
    LET k0 == BitAnd(xk, yk)
        k1 == IF size \in {8, 16} THEN BitAndNot(k0, K_FLOAT) ELSE k0
        k2 == IF size \in {8, 16, 64} THEN BitAndNot(k1, K_PTR) ELSE k1
    IN  k2

\* unify re-parenting its argument `other` instead of other's representative
unify_ReparentOther(ts, a, b) ==
    LET rx == get_representative(ts, a)
        ry == get_representative(rx.ts, b)
        x == rx.rep
        y == ry.rep
        t1 == ry.ts
        size == IF t1[x].size # None THEN t1[x].size ELSE t1[y].size
        kind == UnifyKind(t1[x].kind, t1[y].kind, size)
        sign == BitAnd(t1[x].sign, t1[y].sign)
        size2 == IF kind = K_PTR THEN 32 ELSE size
    IN  IF x = y THEN [ret |-> "True", ts |-> t1]
        ELSE IF t1[x].size # None /\ t1[y].size # None /\ t1[x].size # t1[y].size
        THEN [ret |-> "False", ts |-> t1]
        ELSE IF kind = 0 \/ sign = 0 THEN [ret |-> "False", ts |-> t1]
        ELSE [ret |-> "True",
              ts |-> [t1 EXCEPT ![x].kind = kind, ![x].size = size2,
                                ![x].sign = sign, ![b].uf_parent = x]]

\* Type.unify(self = a, other = b) on the heap ts: the value returned
\* ("True", "False", or "AssertionError" when the assert of line 91 fails)
\* and the heap it leaves
unify(ts, a, b) ==
    LET rx == get_representative(ts, a)
        ry == get_representative(rx.ts, b)
        x == rx.rep
        y == ry.rep
        t1 == ry.ts
        size == IF t1[x].size # None THEN t1[x].size ELSE t1[y].size
        kind == UnifyKind(t1[x].kind, t1[y].kind, size)
        sign == BitAnd(t1[x].sign, t1[y].sign)
        size2 == IF kind = K_PTR THEN 32 ELSE size
    IN  IF x = y THEN [ret |-> "True", ts |-> t1]
        ELSE IF t1[x].size # None /\ t1[y].size # None /\ t1[x].size # t1[y].size
        THEN [ret |-> "False", ts |-> t1]
        ELSE IF kind = 0 \/ sign = 0 THEN [ret |-> "False", ts |-> t1]
        ELSE IF sign # ANY_SIGN /\ kind # K_INT
        THEN [ret |-> "AssertionError", ts |-> t1]
        ELSE [ret |-> "True",
              ts |-> [t1 EXCEPT ![x].kind = kind, ![x].size = size2,
                                ![x].sign = sign, ![y].uf_parent = x]]

\* __str__ printing `?` for every kind that is not exactly INT, PTR or FLOAT
Type_str_UnknownByDefault(ts, t) ==
    LET type == get_representative(ts, t).ts[get_representative(ts, t).rep]
        size == IF type.size = None THEN 32 ELSE type.size
        sign == IF BitAnd(type.sign, SIGNED) # 0 THEN "s" ELSE "u"
    IN  IF type.kind = K_PTR THEN "void *"
        ELSE IF type.kind = K_FLOAT THEN "f" \o ToString(size)
        ELSE IF type.kind = K_INT THEN sign \o ToString(size)
        ELSE IF type.size # None THEN "?" \o ToString(size)
        ELSE "?"

\* str(t) for the object t of the heap ts
Type_str(ts, t) ==
    LET type == get_representative(ts, t).ts[get_representative(ts, t).rep]
        size == IF type.size = None THEN 32 ELSE type.size
        sign == IF BitAnd(type.sign, SIGNED) # 0 THEN "s" ELSE "u"
    IN  IF type.kind = K_ANY
        THEN IF type.size # None THEN "?" \o ToString(size) ELSE "?"
        ELSE IF type.kind = K_PTR THEN "void *"
        ELSE IF type.kind = K_FLOAT THEN "f" \o ToString(size)
        ELSE sign \o ToString(size)

(***************************************************************************)
(* Expressions. An expression is a record; the objects Python compares by  *)
(* identity carry what identifies them: oid for BinaryOp, Cast and         *)
(* FuncCall (numbered as they are constructed), id for an EvalOnceExpr     *)
(* (its index in stack_info.temp_vars), (reg, node) for a PhiExpr (the     *)
(* driver constructs one per register and node). The mutable fields of     *)
(* EvalOnceExpr and PhiExpr live in mem. Types are not part of an          *)
(* expression here: no operation modelled below reads one.                 *)
(***************************************************************************)
\* Python's None where an Optional[Expression] is expected
NoneExpr == [tag |-> "None"]

Literal(value) == [tag |-> "Literal", value |-> value]

GlobalSymbol(symbol_name) == [tag |-> "GlobalSymbol", symbol_name |-> symbol_name]

PassedInArg(value, copied, type) ==
    [tag |-> "PassedInArg", value |-> value, copied |-> copied, type |-> type]

\* LocalVar(value, type); the type is unique_type_for('stack', value)
LocalVar(value) == [tag |-> "LocalVar", value |-> value]

\* SubroutineArg(value, type)
SubroutineArg(value) == [tag |-> "SubroutineArg", value |-> value]

AddressOf(expr) == [tag |-> "AddressOf", expr |-> expr]

StructAccess(struct_var, offset) ==
    [tag |-> "StructAccess", struct_var |-> struct_var, offset |-> offset]

BinaryOp(oid, left, op, right) ==
    [tag |-> "BinaryOp", oid |-> oid, left |-> left, op |-> op, right |-> right]

UnaryOp(oid, op, expr) == [tag |-> "UnaryOp", oid |-> oid, op |-> op, expr |-> expr]

Cast(oid, expr, reinterpret, silent) ==
    [tag |-> "Cast", oid |-> oid, expr |-> expr, reinterpret |-> reinterpret,
     silent |-> silent]

FuncCall(oid, func_name, args) ==
    [tag |-> "FuncCall", oid |-> oid, func_name |-> func_name, args |-> args]

EvalOnceExpr(id) == [tag |-> "EvalOnceExpr", id |-> id]

PhiExpr(reg, node) == [tag |-> "PhiExpr", reg |-> reg, node |-> node]

\* The mutable fields of a new EvalOnceExpr; var is "" while it still is the
\* name generator of its prefix. propagated is a history field: how many
\* times use() has called mark_used on the wrapped expression.
EvalOnceFields(wrapped_expr, always_emit, prefix) ==
    [wrapped_expr |-> wrapped_expr, always_emit |-> always_emit, prefix |-> prefix,
     var |-> "", num_usages |-> 0, propagated |-> 0]

\* The mutable fields of a new PhiExpr; name is "" for None. Three history
\* fields: processed lists the values of num_usages at the iterations of the
\* loop of assign_phis that took the phi, marked counts the mark_used calls
\* that loop made on its replacement expression, late tells that its first
\* use came from another phi
PhiFields ==
    [name |-> "", num_usages |-> 0, replacement_expr |-> NoneExpr, used_by |-> NoneExpr,
     processed |-> <<>>, marked |-> 0, late |-> FALSE]

PhiKey(phi) == <<phi.reg, phi.node>>

\* StackInfo(function) with its defaults. unique_type_map is the set of its
\* keys of the categories 'arg' and 'stack' (a Type object is named by its
\* key, the types of symbols and struct members are not followed);
\* temp_name_counter.get(prefix, 0) is temp_name_counter[prefix]
StackInfo ==
    [allocated_stack_size |-> 0, is_leaf |-> TRUE, local_vars_region_bottom |-> 0,
     return_addr_location |-> 0, callee_save_reg_locations |-> [r \in {} |-> 0],
     unique_type_map |-> {}, local_vars |-> <<>>,
     arguments |-> <<>>, temp_vars |-> <<>>, phi_vars |-> <<>>,
     temp_name_counter |-> [prefix \in {} |-> 0]]

\* The objects at the start of a translation. behalf is a history field: for
\* an EvalOnceExpr id and an expression, how many uses the expression got
\* from mark_used calls made by that EvalOnceExpr's use().
EmptyMem ==
    [evals |-> <<>>, phis |-> [k \in {} |-> PhiFields], used_phis |-> <<>>,
     next_oid |-> 1, stack_info |-> StackInfo, behalf |-> [k \in {} |-> 0],
     unified |-> {}]

\* expr.dependencies() of the variants other than EvalOnceExpr
dependencies(expr) ==
    CASE expr.tag = "BinaryOp"     -> <<expr.left, expr.right>>
      [] expr.tag = "Cast"         -> <<expr.expr>>
      [] expr.tag = "FuncCall"     -> expr.args
      [] expr.tag = "StructAccess" -> <<expr.struct_var>>
      [] expr.tag = "AddressOf"    -> <<expr.expr>>
      [] OTHER                     -> <<>>

\* History: one more use of expr made on behalf of EvalOnceExpr `by`
\* (by = 0: the use is the translator's own)
Credit(m, by, expr) ==
    IF by = 0 THEN m
    ELSE LET k == <<by, expr>>
         IN  [m EXCEPT !.behalf =
                  IF k \in DOMAIN @ THEN [@ EXCEPT ![k] = @ + 1] ELSE (k :> 1) @@ @]

\* PhiExpr.use(from_phi) appending to used_phis at every use
PhiExpr_use_AlwaysAppend(m, phi, from_phi) ==
    LET k == PhiKey(phi)
    IN  [m EXCEPT !.used_phis = Append(@, phi),
                  !.phis[k].late = @ \/ (m.phis[k].num_usages = 0 /\ from_phi # NoneExpr),
                  !.phis[k].num_usages = @ + 1,
                  !.phis[k].used_by = from_phi]

\* PhiExpr.use(from_phi)
PhiExpr_use(m, phi, from_phi) ==
    LET k == PhiKey(phi)
    IN  [m EXCEPT !.used_phis = IF m.phis[k].num_usages = 0 THEN Append(@, phi) ELSE @,
                  !.phis[k].late = @ \/ (m.phis[k].num_usages = 0 /\ from_phi # NoneExpr),
                  !.phis[k].num_usages = @ + 1,
                  !.phis[k].used_by = from_phi]

RECURSIVE mark_used(_, _, _)
RECURSIVE mark_used_each(_, _, _)
\* EvalOnceExpr.use() propagating into the wrapped expression at every use
EvalOnceExpr_use_EveryUse(m, e) ==
    LET m1 == [m EXCEPT !.evals[e.id].num_usages = @ + 1]
    IN  IF ~m1.evals[e.id].always_emit
        THEN mark_used([m1 EXCEPT !.evals[e.id].propagated = @ + 1],
                       m1.evals[e.id].wrapped_expr, e.id)
        ELSE m1

\* EvalOnceExpr.use()
EvalOnceExpr_use(m, e) ==
    LET m1 == [m EXCEPT !.evals[e.id].num_usages = @ + 1]
    IN  IF m1.evals[e.id].num_usages = 1 /\ ~m1.evals[e.id].always_emit
        THEN mark_used([m1 EXCEPT !.evals[e.id].propagated = @ + 1],
                       m1.evals[e.id].wrapped_expr, e.id)
        ELSE m1

\* mark_used(expr); `by` is history only: the EvalOnceExpr whose use() makes
\* the call, 0 for a call of the translator
mark_used(m, expr, by) ==
    IF expr.tag = "PhiExpr" THEN PhiExpr_use(Credit(m, by, expr), expr, NoneExpr)
    ELSE IF expr.tag = "EvalOnceExpr" THEN EvalOnceExpr_use(Credit(m, by, expr), expr)
    ELSE mark_used_each(m, dependencies(expr), by)

\* the loop of mark_used over expr.dependencies()
mark_used_each(m, exprs, by) ==
    IF exprs = <<>> THEN m
    ELSE mark_used_each(mark_used(m, Head(exprs), by), Tail(exprs), by)

\* eval_once(expr, always_emit, prefix) without the append to to_write: the
\* new EvalOnceExpr and the objects after the call
eval_once(m, expr, always_emit, prefix) ==
    LET Wrap(m1) ==
            LET id == Len(m1.evals) + 1
            IN  [expr |-> EvalOnceExpr(id),
                 m |-> [m1 EXCEPT
                           !.evals = Append(@, EvalOnceFields(expr, always_emit, prefix)),
                           !.stack_info.temp_vars = Append(@, EvalOnceExpr(id))]]
    IN  Wrap(IF always_emit THEN mark_used(m, expr, 0) ELSE m)

\* StackInfo.temp_var_generator(prefix)(): the name and the stack info after
temp_var_generator(stack_info, prefix) ==
    LET old == IF prefix \in DOMAIN stack_info.temp_name_counter
               THEN stack_info.temp_name_counter[prefix] ELSE 0
        counter == old + 1
    IN  [name |-> "temp_" \o prefix \o
                  (IF counter > 1 THEN "_" \o ToString(counter) ELSE ""),
         stack_info |-> [stack_info EXCEPT !.temp_name_counter =
                            (prefix :> counter) @@ @]]

\* EvalOnceExpr.get_var_name()
EvalOnceExpr_get_var_name(m, e) ==
    IF m.evals[e.id].var # "" THEN [s |-> m.evals[e.id].var, m |-> m]
    ELSE LET g == temp_var_generator(m.stack_info, m.evals[e.id].prefix)
         IN  [s |-> g.name,
              m |-> [m EXCEPT !.evals[e.id].var = g.name, !.stack_info = g.stack_info]]

\* str(Literal) of an untyped literal: decimal below 10
Literal_str(expr) == ToString(expr.value)

RECURSIVE str(_, _)
\* EvalOnceExpr.__str__ printing the variable name of every always-emit
\* expression
EvalOnceExpr_str_NameAlwaysEmit(m, e) ==
    IF m.evals[e.id].num_usages <= 1 /\ ~m.evals[e.id].always_emit
    THEN str(m, m.evals[e.id].wrapped_expr)
    ELSE EvalOnceExpr_get_var_name(m, e)

\* EvalOnceExpr.__str__
EvalOnceExpr_str(m, e) ==
    IF m.evals[e.id].num_usages <= 1
    THEN str(m, m.evals[e.id].wrapped_expr)
    ELSE EvalOnceExpr_get_var_name(m, e)

RECURSIVE str_args(_, _)
\* ", ".join(str(arg) for arg in args)
str_args(m, args) ==
    IF args = <<>> THEN [s |-> "", m |-> m]
    ELSE LET a == str(m, Head(args))
             r == str_args(a.m, Tail(args))
         IN  [s |-> IF Tail(args) = <<>> THEN a.s ELSE a.s \o ", " \o r.s, m |-> r.m]

\* str(expr): the text, and the objects after the call (a first
\* get_var_name draws the name from the generator)
str(m, expr) ==
    CASE expr.tag = "EvalOnceExpr" -> EvalOnceExpr_str(m, expr)
      [] expr.tag = "PhiExpr" ->
            IF m.phis[PhiKey(expr)].replacement_expr # NoneExpr
            THEN str(m, m.phis[PhiKey(expr)].replacement_expr)
            ELSE [s |-> IF m.phis[PhiKey(expr)].name # ""
                        THEN m.phis[PhiKey(expr)].name
                        ELSE "unnamed-phi(" \o expr.reg \o ")",
                  m |-> m]
      [] expr.tag = "BinaryOp" ->
            LET l == str(m, expr.left)
                r == str(l.m, expr.right)
            IN  [s |-> "(" \o l.s \o " " \o expr.op \o " " \o r.s \o ")", m |-> r.m]
      [] expr.tag = "FuncCall" ->
            LET a == str_args(m, expr.args)
            IN  [s |-> expr.func_name \o "(" \o a.s \o ")", m |-> a.m]
      [] expr.tag = "Literal" -> [s |-> Literal_str(expr), m |-> m]
      [] expr.tag = "GlobalSymbol" -> [s |-> expr.symbol_name, m |-> m]

\* EvalOnceStmt.need_decl() of the statement of EvalOnceExpr e
EvalOnceStmt_need_decl(m, e) == m.evals[e.id].num_usages > 1

\* EvalOnceStmt.should_write() of the statement of EvalOnceExpr e
EvalOnceStmt_should_write(m, e) ==
    IF m.evals[e.id].always_emit
    THEN m.evals[e.id].num_usages # 1
    ELSE m.evals[e.id].num_usages > 1

(***************************************************************************)
(* Registers and instructions.                                             *)
(***************************************************************************)
ARGUMENT_REGS == {"a0", "a1", "a2", "a3", "f12", "f14"}

CALLER_SAVE_REGS ==
    ARGUMENT_REGS \cup
    {"at", "t0", "t1", "t2", "t3", "t4", "t5", "t6", "t7", "t8", "t9",
     "hi", "lo", "condition_bit", "return_reg"}

CALLEE_SAVE_REGS == {"s0", "s1", "s2", "s3", "s4", "s5", "s6", "s7"}

SPECIAL_REGS == {"ra", "31", "fp"}

\* The registers whose contents the model follows: the ones an instruction
\* of Bodies, of BlockInstrs or a terminator names, the ones a jal sets, and
\* a0 and a1 for the argument registers. The register file of the program
\* holds the other argument, callee-save and special registers too; no
\* modelled instruction reads or writes them, and a jal skips the initial
\* arguments (PassedInArg with copied = False) and deletes them like a0.
Regs ==
    {"a0", "a1", "s0", "s1", "t0", "t1", "v0", "v1", "f0", "ra", "sp", "return_reg",
     "hi", "lo"}

\* Instruction(mnemonic, args): the Register arguments in order, the literal
\* and the global symbol among the arguments
Instruction(mnemonic, regs, imm, sym) ==
    [mnemonic |-> mnemonic, regs |-> regs, imm |-> imm, sym |-> sym]

\* the keys of the instruction tables
CASES_SOURCE_FIRST_EXPRESSION == {"sb", "sh", "sw", "swc1", "sdc1"}

CASES_SOURCE_FIRST_REGISTER == {"mtc1", "ctc1"}

CASES_BRANCHES == {"b", "beq", "bne", "beqz", "bnez", "blez", "bgtz", "bltz", "bgez"}

CASES_FLOAT_BRANCHES == {"bc1t", "bc1f"}

CASES_JUMPS == {"jal", "jr"}

CASES_FLOAT_COMP == {"c.eq.s", "c.le.s", "c.lt.s", "c.eq.d", "c.le.d", "c.lt.d"}

CASES_HI_LO == {"div", "divu", "multu"}

CASES_DESTINATION_FIRST ==
    {"slt", "slti", "sltu", "sltiu", "addi", "addiu", "addu", "subu", "negu",
     "mfhi", "mflo", "add.s", "sub.s", "neg.s", "div.s", "mul.s", "add.d",
     "sub.d", "neg.d", "div.d", "mul.d", "cvt.d.s", "cvt.d.w", "cvt.s.d",
     "cvt.s.u", "cvt.s.w", "cvt.w.d", "cvt.w.s", "trunc.w.s", "trunc.w.d",
     "ori", "and", "or", "xor", "andi", "xori", "sll", "sllv", "srl", "srlv",
     "sra", "srav", "move", "mfc1", "cfc1", "mov.s", "mov.d", "li", "lui",
     "lb", "lh", "lw", "lbu", "lhu", "lwu", "lwc1", "ldc1"}

\* The instruction sequences a basic block is made of, before its
\* terminator; "bad" is a mnemonic of no instruction table
Bodies ==
    { <<>>,
      << Instruction("li", <<"t0">>, 1, "") >>,
      << Instruction("li", <<"t0">>, 2, "") >>,
      << Instruction("addiu", <<"t0", "t0">>, 1, ""),
         Instruction("sw", <<"t0", "s0">>, 0, "") >>,
      << Instruction("move", <<"v0", "t0">>, 0, "") >>,
      << Instruction("jal", <<>>, 0, "foo") >>,
      << Instruction("bad", <<>>, 0, "") >>,
      << Instruction("sw", <<"t0", "s0">>, 0, "") >>,
      << Instruction("multu", <<"s0", "s1">>, 0, "") >>,
      << Instruction("mfhi", <<"v0">>, 0, "") >>,
      << Instruction("li", <<"v0">>, 7, "") >> }

(***************************************************************************)
(* The flow graph handed to the translator: for every node its block's     *)
(* instructions, parents, immediate_dominator (0 for None),                *)
(* immediately_dominates, and whether it is the ReturnNode. Node 1 is the  *)
(* entry. The graphs are given by their successor sets; parents and        *)
(* children are listed in ascending order.                                 *)
(***************************************************************************)
\* a chain, a diamond, a triangle, a self-loop, two nested joins and a
\* single block
Shapes ==
    << << {2}, {3}, {} >>,
       << {2, 3}, {4}, {4}, {} >>,
       << {2, 3}, {3}, {} >>,
       << {2}, {2, 3}, {} >>,
       << {2, 3}, {3, 4}, {4}, {} >>,
       << {} >> >>

RECURSIVE SortedSeq(_)
\* the numbers of S in ascending order
SortedSeq(S) ==
    IF S = {} THEN <<>>
    ELSE LET x == CHOOSE x \in S : \A y \in S : x <= y
         IN  <<x>> \o SortedSeq(S \ {x})

RECURSIVE Reach(_, _, _)
\* the nodes reachable from the nodes of seen without entering avoid
Reach(succ, seen, avoid) ==
    LET next == (UNION {succ[n] : n \in seen}) \ (seen \cup {avoid})
    IN  IF next = {} THEN seen ELSE Reach(succ, seen \cup next, avoid)

\* every path from the entry to n passes through d
Dominates(succ, d, n) ==
    d = n \/ n \notin Reach(succ, IF d = 1 THEN {} ELSE {1}, d)

\* the immediate dominator of n, 0 for the entry
ImmediateDominator(succ, n) ==
    LET strict == {d \in 1..Len(succ) : d # n /\ Dominates(succ, d, n)}
    IN  IF strict = {} THEN 0
        ELSE CHOOSE d \in strict : \A e \in strict : Dominates(succ, e, d)

\* the instruction a block ends with: a conditional branch when it has two
\* successors, jr ra when it has none
Terminator(succ, n) ==
    IF succ[n] = {} THEN << Instruction("jr", <<"ra">>, 0, "") >>
    ELSE IF Cardinality(succ[n]) = 2 THEN << Instruction("bnez", <<"s1">>, 0, "") >>
    ELSE <<>>

\* parents, immediate_dominator, immediately_dominates and the terminator
\* of every node of the graph of successor sets succ
GraphOf(succ) ==
    [n \in 1..Len(succ) |->
        [terminator |-> Terminator(succ, n),
         parents |-> SortedSeq({p \in 1..Len(succ) : n \in succ[p]}),
         immediate_dominator |-> ImmediateDominator(succ, n),
         immediately_dominates |->
             SortedSeq({c \in 1..Len(succ) : ImmediateDominator(succ, c) = n}),
         is_return |-> succ[n] = {}]]

\* the graphs of Shapes
Graphs == [i \in 1..Len(Shapes) |-> GraphOf(Shapes[i])]

\* the nodes of graph g, node n holding the instructions bodies[n] and its
\* terminator
FlowGraph(g, bodies) ==
    [n \in 1..Len(g) |->
        [instructions |-> bodies[n] \o g[n].terminator,
         parents |-> g[n].parents,
         immediate_dominator |-> g[n].immediate_dominator,
         immediately_dominates |-> g[n].immediately_dominates,
         is_return |-> g[n].is_return]]

\* no function given (SpecType, SpecEval)
NoProgram == [stop_on_error |-> FALSE, nodes |-> <<>>]

(***************************************************************************)
(* Phi placement.                                                          *)
(***************************************************************************)
\* output_regs_for_instr(instr): the registers, or exc when the final assert
\* fails (reg_at(i) is instr.regs[i + 1])
output_regs_for_instr(instr) ==
    LET mnemonic == instr.mnemonic
    IN  IF \/ mnemonic \in {"nop", "jr"}
           \/ mnemonic \in CASES_SOURCE_FIRST_EXPRESSION
           \/ mnemonic \in CASES_BRANCHES
           \/ mnemonic \in CASES_FLOAT_BRANCHES
        THEN [regs |-> {}, exc |-> FALSE]
        ELSE IF mnemonic = "jal"
        THEN [regs |-> {"return_reg", "f0", "v0", "v1"}, exc |-> FALSE]
        ELSE IF mnemonic \in CASES_SOURCE_FIRST_REGISTER
        THEN [regs |-> {instr.regs[2]}, exc |-> FALSE]
        ELSE IF mnemonic \in CASES_DESTINATION_FIRST
        THEN [regs |-> {instr.regs[1]}, exc |-> FALSE]
        ELSE IF mnemonic \in CASES_FLOAT_COMP
        THEN [regs |-> {"condition_bit"}, exc |-> FALSE]
        ELSE IF mnemonic \in CASES_HI_LO
        THEN [regs |-> {"hi", "lo"}, exc |-> FALSE]
        ELSE [regs |-> {}, exc |-> TRUE]

RECURSIVE clobbered_in_block(_, _)
\* the inner loop of regs_clobbered_until_dominator over the instructions of
\* one block, adding to clobbered
clobbered_in_block(instructions, clobbered) ==
    IF instructions = <<>> THEN [regs |-> clobbered, exc |-> FALSE]
    ELSE LET instr == Head(instructions)
             out == output_regs_for_instr(instr)
         IN  IF out.exc THEN [regs |-> clobbered, exc |-> TRUE]
             ELSE clobbered_in_block(
                      Tail(instructions),
                      clobbered \cup out.regs \cup
                          (IF instr.mnemonic = "jal" THEN CALLER_SAVE_REGS ELSE {}))

RECURSIVE clobbered_while(_, _, _, _)
\* the while loop of regs_clobbered_until_dominator
clobbered_while(nodes, stack, seen, clobbered) ==
    IF stack = <<>> THEN [regs |-> clobbered, exc |-> FALSE]
    ELSE LET n == stack[Len(stack)]
             rest == SubSeq(stack, 1, Len(stack) - 1)
         IN  IF n \in seen THEN clobbered_while(nodes, rest, seen, clobbered)
             ELSE LET r == clobbered_in_block(nodes[n].instructions, clobbered)
                  IN  IF r.exc THEN r
                      ELSE clobbered_while(nodes, rest \o nodes[n].parents,
                                           seen \cup {n}, r.regs)

\* regs_clobbered_until_dominator(node): the set, or exc when
\* output_regs_for_instr raises
regs_clobbered_until_dominator(nodes, node) ==
    IF nodes[node].immediate_dominator = 0 THEN [regs |-> {}, exc |-> FALSE]
    ELSE clobbered_while(nodes, nodes[node].parents,
                         {nodes[node].immediate_dominator}, {})

RECURSIVE always_set_in_block(_, _, _)
\* the inner loop of reg_always_set: the value of clobbered ("None", "True",
\* "False") after the instructions, or "exc"
always_set_in_block(instructions, reg, clobbered) ==
    IF instructions = <<>> THEN clobbered
    ELSE LET instr == Head(instructions)
             out == output_regs_for_instr(instr)
             c1 == IF instr.mnemonic = "jal" /\ reg \in CALLER_SAVE_REGS
                   THEN "True" ELSE clobbered
         IN  IF out.exc THEN "exc"
             ELSE always_set_in_block(Tail(instructions), reg,
                                      IF reg \in out.regs THEN "False" ELSE c1)

RECURSIVE always_set_while(_, _, _, _, _, _)
\* the while loop of reg_always_set
always_set_while(nodes, node, reg, dom_set, stack, seen) ==
    IF stack = <<>> THEN [val |-> TRUE, exc |-> FALSE]
    ELSE LET n == stack[Len(stack)]
             rest == SubSeq(stack, 1, Len(stack) - 1)
         IN  IF n = nodes[node].immediate_dominator /\ ~dom_set
             THEN [val |-> FALSE, exc |-> FALSE]
             ELSE IF n \in seen
             THEN always_set_while(nodes, node, reg, dom_set, rest, seen)
             ELSE LET clobbered == always_set_in_block(nodes[n].instructions, reg, "None")
                  IN  IF clobbered = "exc" THEN [val |-> FALSE, exc |-> TRUE]
                      ELSE IF clobbered = "True" THEN [val |-> FALSE, exc |-> FALSE]
                      ELSE always_set_while(
                               nodes, node, reg, dom_set,
                               IF clobbered = "None" THEN rest \o nodes[n].parents ELSE rest,
                               seen \cup {n})

\* reg_always_set(node, reg, dom_set)
reg_always_set(nodes, node, reg, dom_set) ==
    IF nodes[node].immediate_dominator = 0 THEN [val |-> FALSE, exc |-> FALSE]
    ELSE always_set_while(nodes, node, reg, dom_set, nodes[node].parents,
                          {nodes[node].immediate_dominator})

(***************************************************************************)
(* Statements. instr is a history field: the index, in the block, of the   *)
(* instruction whose translation appended the statement.                   *)
(***************************************************************************)
EvalOnceStmt(expr, instr) == [tag |-> "EvalOnceStmt", expr |-> expr, instr |-> instr]

StoreStmt(source, dest, instr) ==
    [tag |-> "StoreStmt", source |-> source, dest |-> dest, instr |-> instr]

SetPhiStmt(phi, expr) == [tag |-> "SetPhiStmt", phi |-> phi, expr |-> expr]

CommentStmt(contents) == [tag |-> "CommentStmt", contents |-> contents]

\* to_write.append(stmt) putting the statement first
to_write_append_Front(to_write, stmt) == <<stmt>> \o to_write

\* to_write.append(stmt)
to_write_append(to_write, stmt) == Append(to_write, stmt)

(***************************************************************************)
(* class RegInfo: contents maps every register of Regs to its expression,  *)
(* NoneExpr for a register that is not in the dict.                        *)
(***************************************************************************)
RegInfo(contents, written_in_block) ==
    [contents |-> contents, written_in_block |-> written_in_block]

RECURSIVE SortedByValue(_)
\* sorted(arguments, key=lambda a: a.value), the values being distinct
SortedByValue(arguments) ==
    IF arguments = <<>> THEN <<>>
    ELSE LET i == CHOOSE i \in 1..Len(arguments) :
                      \A j \in 1..Len(arguments) : arguments[i].value <= arguments[j].value
         IN  <<arguments[i]>> \o
             SortedByValue(SubSeq(arguments, 1, i - 1) \o
                           SubSeq(arguments, i + 1, Len(arguments)))

\* StackInfo.add_argument(arg)
\* add_argument without the sort that follows the append
StackInfo_add_argument_Unsorted(stack_info, arg) ==
    IF \E i \in 1..Len(stack_info.arguments) : stack_info.arguments[i].value = arg.value
    THEN stack_info
    ELSE [stack_info EXCEPT !.arguments = Append(@, arg)]

StackInfo_add_argument(stack_info, arg) ==
    IF \E i \in 1..Len(stack_info.arguments) : stack_info.arguments[i].value = arg.value
    THEN stack_info
    ELSE [stack_info EXCEPT !.arguments = SortedByValue(Append(@, arg))]

\* StackInfo.add_local_var(var)
StackInfo_add_local_var(stack_info, var) ==
    IF \E i \in 1..Len(stack_info.local_vars) : stack_info.local_vars[i].value = var.value
    THEN stack_info
    ELSE [stack_info EXCEPT !.local_vars = SortedByValue(Append(@, var))]

\* get_stack_info(function, start_node), from the instructions of the start
\* node; an instruction's first argument is regs[1], the base of its
\* address-mode argument is regs[2] and the offset is imm. is_callee_save()
\* holds for s0..s7.
get_stack_info(instructions) ==
    LET RECURSIVE scan(_, _)
        scan(info, i) ==
            IF i > Len(instructions) THEN info
            ELSE LET inst == instructions[i]
                     abs == IF inst.imm < 0 THEN -inst.imm ELSE inst.imm
                 IN  IF inst.regs = <<>> THEN scan(info, i + 1)
                     ELSE IF inst.mnemonic = "addiu" /\ inst.regs[1] = "sp"
                     THEN scan([info EXCEPT !.allocated_stack_size = abs], i + 1)
                     ELSE IF inst.mnemonic = "sw" /\ inst.regs[1] = "ra"
                     THEN scan([info EXCEPT !.is_leaf = FALSE,
                                            !.return_addr_location = inst.imm], i + 1)
                     ELSE IF /\ inst.mnemonic = "sw"
                             /\ inst.regs[1] \in CALLEE_SAVE_REGS
                             /\ Len(inst.regs) = 2
                             /\ inst.regs[2] = "sp"
                     THEN scan([info EXCEPT !.callee_save_reg_locations =
                                   (inst.regs[1] :> inst.imm) @@ @], i + 1)
                     ELSE scan(info, i + 1)
        Region(info) ==
            LET saved == {info.callee_save_reg_locations[r] :
                             r \in DOMAIN info.callee_save_reg_locations}
            IN  [info EXCEPT !.local_vars_region_bottom =
                    IF info.is_leaf /\ saved # {}
                    THEN (CHOOSE v \in saved : \A w \in saved : w <= v) + 4
                    ELSE IF info.is_leaf THEN 0
                    ELSE info.return_addr_location + 4]
    IN  Region(scan(StackInfo, 1))

\* StackInfo.in_subroutine_arg_region(location): the value, or exc when an
\* assert fails
in_subroutine_arg_region(stack_info, location) ==
    LET saved == {stack_info.callee_save_reg_locations[r] :
                     r \in DOMAIN stack_info.callee_save_reg_locations}
        subroutine_arg_top ==
            IF saved # {} THEN CHOOSE v \in saved : \A w \in saved : v <= w
            ELSE stack_info.return_addr_location
    IN  IF stack_info.is_leaf THEN [val |-> FALSE, exc |-> TRUE]
        ELSE IF saved # {} /\ ~(stack_info.return_addr_location > subroutine_arg_top)
        THEN [val |-> FALSE, exc |-> TRUE]
        ELSE [val |-> location < subroutine_arg_top, exc |-> FALSE]

\* StackInfo.get_argument(location), with the unique_type_for('arg', ...)
\* it calls: the PassedInArg and the stack info after
StackInfo_get_argument(stack_info, location) ==
    [arg |-> PassedInArg(location, TRUE, <<"arg", location>>),
     stack_info |-> [stack_info EXCEPT !.unique_type_map = @ \cup {<<"arg", location>>}]]

\* StackInfo.get_stack_var(location, store): the expression, the stack info
\* after the call, and exc ("" for none) when an assert of
\* in_subroutine_arg_region fails
get_stack_var(stack_info, location, store) ==
    LET local ==
            [expr |-> LocalVar(location),
             stack_info |-> [stack_info EXCEPT
                                !.unique_type_map = @ \cup {<<"stack", location>>}],
             exc |-> ""]
        Argument(ret) ==
            [expr |-> ret.arg,
             stack_info |-> IF store THEN ret.stack_info
                            ELSE StackInfo_add_argument(ret.stack_info, ret.arg),
             exc |-> ""]
        Below(region) ==
            IF region.exc
            THEN [expr |-> NoneExpr, stack_info |-> stack_info, exc |-> "AssertionError"]
            ELSE IF region.val
            THEN [expr |-> SubroutineArg(location), stack_info |-> stack_info, exc |-> ""]
            ELSE local
    IN  IF /\ stack_info.local_vars_region_bottom <= location
           /\ location < stack_info.allocated_stack_size
        THEN local
        ELSE IF location >= stack_info.allocated_stack_size
        THEN Argument(StackInfo_get_argument(
                          stack_info, location - stack_info.allocated_stack_size))
        ELSE Below(in_subroutine_arg_region(stack_info, location))

\* RegInfo.get_raw(key)
RegInfo_get_raw(regs, key) == regs.contents[key]

\* RegInfo.__getitem__(key): the expression, the objects after the call
\* (get_argument and add_argument for a PassedInArg that is not copied) and
\* the assertion message, "" when the assert holds
RegInfo_getitem(regs, m, key) ==
    IF key = "zero" THEN [expr |-> Literal(0), m |-> m, exc |-> ""]
    ELSE LET ret == RegInfo_get_raw(regs, key)
             Copied(g) ==
                 [expr |-> g.arg,
                  m |-> [m EXCEPT !.stack_info = StackInfo_add_argument(g.stack_info, g.arg),
                                  !.unified = @ \cup {{g.arg.type, ret.type}}],
                  exc |-> ""]
         IN  IF ret = NoneExpr
             THEN [expr |-> NoneExpr, m |-> m, exc |-> "Read from unset register " \o key]
             ELSE IF ret.tag = "PassedInArg" /\ ~ret.copied
             THEN Copied(StackInfo_get_argument(m.stack_info, ret.value))
             ELSE [expr |-> ret, m |-> m, exc |-> ""]

\* RegInfo.__setitem__(key, value), key not being zero
\* __setitem__ without the write of return_reg that follows a write of f0 or v0
RegInfo_setitem_NoMirror(regs, key, value) ==
    RegInfo([regs.contents EXCEPT ![key] = value], regs.written_in_block \cup {key})

RegInfo_setitem(regs, key, value) ==
    LET mirrored == key \in {"f0", "v0"}
        c1 == [regs.contents EXCEPT ![key] = value]
    IN  RegInfo(IF mirrored THEN [c1 EXCEPT !["return_reg"] = value] ELSE c1,
                regs.written_in_block \cup {key} \cup
                    (IF mirrored THEN {"return_reg"} ELSE {}))

\* clear_caller_save_regs deleting the argument registers only
RegInfo_clear_caller_save_regs_ArgumentsOnly(regs) ==
    [regs EXCEPT !.contents =
        [r \in Regs |-> IF r \in ARGUMENT_REGS THEN NoneExpr ELSE @[r]]]

\* RegInfo.clear_caller_save_regs()
RegInfo_clear_caller_save_regs(regs) ==
    [regs EXCEPT !.contents =
        [r \in Regs |-> IF r \in CALLER_SAVE_REGS THEN NoneExpr ELSE @[r]]]

RECURSIVE is_repeatable_expression(_)
is_repeatable_expression(expr) ==
    IF expr.tag \in {"None", "EvalOnceExpr", "Literal", "GlobalSymbol", "LocalVar",
                     "PassedInArg", "SubroutineArg"}
    THEN TRUE
    ELSE IF expr.tag = "AddressOf" THEN is_repeatable_expression(expr.expr)
    ELSE IF expr.tag = "StructAccess" THEN is_repeatable_expression(expr.struct_var)
    ELSE FALSE

(***************************************************************************)
(* translate_node_body. The state of one call is a record tb: regs (the    *)
(* RegInfo, mutated in place), to_write, branch_condition, return_value,   *)
(* m (the objects shared with the rest of the translation), exc (the       *)
(* message of the exception that ended the call, "" for none) and stopped  *)
(* (the break after jr).                                                   *)
(*                                                                         *)
(* (the break after jr). local_var_writes maps the offset of a LocalVar to  *)
(* the (register, expression) pair stored last; subroutine_args is the     *)
(* list of (source, dest) pairs.                                           *)
(*                                                                         *)
(* Types are not followed: for the instructions modelled every unify of    *)
(* as_intish and as_intptr succeeds (the values are literals, symbols,     *)
(* phis and integer sums, none a float or a bare pointer), so those        *)
(* conversions return their argument; as_type with silent=False and        *)
(* as_u32 return a Cast whether unify succeeds or not.                     *)
(***************************************************************************)
NewBody(regs, m) ==
    [regs |-> regs, to_write |-> <<>>, branch_condition |-> NoneExpr,
     return_value |-> NoneExpr, m |-> m, exc |-> "", stopped |-> FALSE,
     local_var_writes |-> [k \in {} |-> NoneExpr], subroutine_args |-> <<>>]

\* eval_once(expr, always_emit, prefix) with its to_write.append, called for
\* instruction i
body_eval_once(tb, expr, always_emit, prefix, i) ==
    LET Appended(r) ==
            [expr |-> r.expr,
             tb |-> [tb EXCEPT !.m = r.m,
                               !.to_write = to_write_append(@, EvalOnceStmt(r.expr, i))]]
    IN  Appended(eval_once(tb.m, expr, always_emit, prefix))

\* set_reg without the substitution of the stored expression for a LocalVar
set_reg_NoRestore(tb, reg, expr, i) ==
    IF expr # NoneExpr /\ ~is_repeatable_expression(expr)
    THEN LET Assign(r) == [r.tb EXCEPT !.regs = RegInfo_setitem(@, reg, r.expr)]
         IN  Assign(body_eval_once(tb, expr, FALSE, reg, i))
    ELSE [tb EXCEPT !.regs = RegInfo_setitem(@, reg, expr)]

\* set_reg(reg, expr)
set_reg(tb, reg, expr, i) ==
    LET Assign(r) == [r.tb EXCEPT !.regs = RegInfo_setitem(@, reg, r.expr)]
        Set(e) ==
            IF e # NoneExpr /\ ~is_repeatable_expression(e)
            THEN Assign(body_eval_once(tb, e, FALSE, reg, i))
            ELSE [tb EXCEPT !.regs = RegInfo_setitem(@, reg, e)]
    IN  Set(IF /\ expr.tag = "LocalVar"
               /\ expr.value \in DOMAIN tb.local_var_writes
               /\ tb.local_var_writes[expr.value].reg = reg
            THEN tb.local_var_writes[expr.value].expr
            ELSE expr)

\* args.reg(index) inside a handler: [expr, tb], tb.exc set when the read
\* raises
args_reg(tb, instr, index) ==
    LET Read(g) == [expr |-> g.expr, tb |-> [tb EXCEPT !.m = g.m, !.exc = g.exc]]
    IN  Read(RegInfo_getitem(tb.regs, tb.m, instr.regs[index + 1]))

\* handle_addi(args) for addiu rd, rs, imm
handle_addi(tb, instr) ==
    LET source_reg == instr.regs[2]
        imm == Literal(instr.imm)
        Address(source, var) ==
            IF var.exc # "" THEN [expr |-> NoneExpr, tb |-> [source.tb EXCEPT !.exc = var.exc]]
            ELSE [expr |-> AddressOf(var.expr),
                  tb |-> [source.tb EXCEPT
                             !.m.stack_info =
                                 IF var.expr.tag = "LocalVar"
                                 THEN StackInfo_add_local_var(var.stack_info, var.expr)
                                 ELSE var.stack_info]]
        Sum(source) ==
            IF source.tb.exc # "" THEN source
            ELSE IF source_reg = "zero" THEN [expr |-> imm, tb |-> source.tb]
            ELSE IF imm = Literal(0) THEN source
            ELSE IF source_reg \in {"sp", "fp"}
            THEN IF instr.regs[1] \in {"sp", "fp"} THEN source
                 ELSE Address(source, get_stack_var(source.tb.m.stack_info, instr.imm, FALSE))
            ELSE [expr |-> BinaryOp(source.tb.m.next_oid, source.expr, "+", imm),
                  tb |-> [source.tb EXCEPT !.m.next_oid = @ + 1]]
    IN  Sum(args_reg(tb, instr, 1))

\* deref(arg, regs, stack_info, store) for the AddressMode imm(regs[2]) of
\* instr: [expr, tb]
deref(tb, instr, store) ==
    LET Stack(var) ==
            IF var.exc # "" THEN [expr |-> NoneExpr, tb |-> [tb EXCEPT !.exc = var.exc]]
            ELSE [expr |-> var.expr, tb |-> [tb EXCEPT !.m.stack_info = var.stack_info]]
        Struct(var) ==
            IF var.exc # "" THEN [expr |-> NoneExpr, tb |-> [tb EXCEPT !.m = var.m, !.exc = var.exc]]
            ELSE [expr |-> StructAccess(var.expr, instr.imm), tb |-> [tb EXCEPT !.m = var.m]]
    IN  IF instr.regs[2] \in {"sp", "fp"}
        THEN Stack(get_stack_var(tb.m.stack_info, instr.imm, store))
        ELSE Struct(RegInfo_getitem(tb.regs, tb.m, instr.regs[2]))

\* handle_ori(args) for ori rd, rs, imm with a literal imm: BinaryOp.int
handle_ori(tb, instr) ==
    LET Or(left) ==
            IF left.tb.exc # "" THEN left
            ELSE [expr |-> BinaryOp(left.tb.m.next_oid, left.expr, "|", Literal(instr.imm)),
                  tb |-> [left.tb EXCEPT !.m.next_oid = @ + 1]]
    IN  Or(args_reg(tb, instr, 1))

\* CASES_DESTINATION_FIRST[mnemonic](args) for li, addi, addiu, move, lw
\* (handle_load), lui with a literal (load_upper) and ori
destination_first(tb, instr) ==
    CASE instr.mnemonic = "li" -> [expr |-> Literal(instr.imm), tb |-> tb]
      [] instr.mnemonic \in {"addi", "addiu"} -> handle_addi(tb, instr)
      [] instr.mnemonic = "move" -> args_reg(tb, instr, 1)
      [] instr.mnemonic = "lw" -> deref(tb, instr, FALSE)
      [] instr.mnemonic = "lui" -> [expr |-> Literal(instr.imm * 65536), tb |-> tb]
      [] instr.mnemonic = "ori" -> handle_ori(tb, instr)
      [] instr.mnemonic \in {"mfhi", "mflo"} ->
             LET Read(g) == [expr |-> g.expr, tb |-> [tb EXCEPT !.m = g.m, !.exc = g.exc]]
             IN  Read(RegInfo_getitem(tb.regs, tb.m,
                                      IF instr.mnemonic = "mfhi" THEN "hi" ELSE "lo"))

\* make_store(args, type): [stmt, tb], stmt being None for an elided store
make_store(tb, instr, i) ==
    LET Store(source_val, dest) ==
            IF dest.tb.exc # "" THEN [stmt |-> NoneExpr, tb |-> dest.tb]
            ELSE [stmt |-> StoreStmt(Cast(dest.tb.m.next_oid, source_val.expr, TRUE, FALSE),
                                     dest.expr, i),
                  tb |-> [dest.tb EXCEPT !.m.next_oid = @ + 1]]
        Target(source_val) ==
            IF source_val.tb.exc # "" THEN [stmt |-> NoneExpr, tb |-> source_val.tb]
            ELSE IF /\ instr.regs[1] \in CALLEE_SAVE_REGS \cup ARGUMENT_REGS \cup SPECIAL_REGS
                    /\ instr.regs[2] \in {"sp", "fp"}
            THEN [stmt |-> NoneExpr, tb |-> source_val.tb]
            ELSE Store(source_val, deref(source_val.tb, instr, TRUE))
    IN  Target(args_reg(tb, instr, 0))

\* the CASES_SOURCE_FIRST_EXPRESSION branch of the loop
translate_store(tb, instr, i) ==
    LET Written(t1, stmt) ==
            [t1 EXCEPT !.to_write = to_write_append(@, stmt),
                       !.m = mark_used(mark_used(@, stmt.source, 0), stmt.dest, 0)]
        Write(to_store) ==
            IF to_store.tb.exc # "" \/ to_store.stmt = NoneExpr THEN to_store.tb
            ELSE IF to_store.stmt.dest.tag = "SubroutineArg"
            THEN [to_store.tb EXCEPT
                     !.subroutine_args =
                         Append(@, [source |-> to_store.stmt.source,
                                    dest |-> to_store.stmt.dest])]
            ELSE IF to_store.stmt.dest.tag = "LocalVar"
            THEN Written([to_store.tb EXCEPT
                             !.m.stack_info = StackInfo_add_local_var(@, to_store.stmt.dest),
                             !.local_var_writes =
                                 [k \in DOMAIN @ \cup {to_store.stmt.dest.value} |->
                                     IF k = to_store.stmt.dest.value
                                     THEN [reg |-> instr.regs[1],
                                           expr |-> to_store.stmt.source.expr]
                                     ELSE @[k]]],
                         to_store.stmt)
            ELSE Written(to_store.tb, to_store.stmt)
    IN  Write(make_store(tb, instr, i))

\* the registers a jal reads its arguments from, among Regs
JalArgumentRegs == <<"a0", "a1">>

\* the func_args loop visiting the registers in the reverse order
func_args_Reversed(regs) ==
    LET is_passed(reg) ==
            LET expr == RegInfo_get_raw(regs, reg)
            IN  expr # NoneExpr /\ (expr.tag # "PassedInArg" \/ expr.copied)
        passed_regs == SelectSeq(JalArgumentRegs, is_passed)
    IN  [k \in 1..Len(passed_regs) |->
            RegInfo_get_raw(regs, passed_regs[Len(passed_regs) + 1 - k])]

\* the func_args loop of the jal branch
func_args(regs) ==
    LET is_passed(reg) ==
            LET expr == RegInfo_get_raw(regs, reg)
            IN  expr # NoneExpr /\ (expr.tag # "PassedInArg" \/ expr.copied)
    IN  [k \in 1..Len(SelectSeq(JalArgumentRegs, is_passed)) |->
            RegInfo_get_raw(regs, SelectSeq(JalArgumentRegs, is_passed)[k])]

\* the jal branch of the loop
translate_jal(tb, instr, i) ==
    LET oid == tb.m.next_oid
        RECURSIVE sort(_)
        \* subroutine_args.sort(key=lambda a: a[1].value), a stable sort
        sort(args) ==
            IF args = <<>> THEN <<>>
            ELSE LET k == CHOOSE k \in 1..Len(args) :
                              \A j \in 1..Len(args) :
                                  \/ args[k].dest.value < args[j].dest.value
                                  \/ args[k].dest.value = args[j].dest.value /\ k <= j
                 IN  <<args[k]>> \o sort(SubSeq(args, 1, k - 1) \o
                                         SubSeq(args, k + 1, Len(args)))
        sources(args) == [k \in 1..Len(args) |-> args[k].source]
        Returned(call) ==
            LET r0 == RegInfo_clear_caller_save_regs(call.tb.regs)
                r1 == RegInfo_setitem(r0, "f0", Cast(oid + 1, call.expr, TRUE, TRUE))
                r2 == RegInfo_setitem(r1, "v0", Cast(oid + 2, call.expr, TRUE, TRUE))
                r3 == RegInfo_setitem(r2, "v1",
                                      Cast(oid + 4, Cast(oid + 3, call.expr, TRUE, FALSE),
                                           TRUE, FALSE))
                r4 == RegInfo_setitem(r3, "return_reg", call.expr)
            IN  [call.tb EXCEPT !.regs = r4]
    IN  Returned(body_eval_once([tb EXCEPT !.m.next_oid = @ + 5,
                                            !.subroutine_args = <<>>],
                                FuncCall(oid, instr.sym,
                                         func_args(tb.regs) \o
                                             sources(sort(tb.subroutine_args))),
                                TRUE, "ret", i))

\* the CASES_BRANCHES branch of the loop, for b and bnez
translate_branch(tb, instr) ==
    IF tb.branch_condition # NoneExpr THEN [tb EXCEPT !.exc = "AssertionError"]
    ELSE IF instr.mnemonic = "b" THEN tb
    ELSE LET Compare(left) ==
                 IF left.tb.exc # "" THEN left.tb
                 ELSE [left.tb EXCEPT
                          !.branch_condition =
                              BinaryOp(left.tb.m.next_oid, left.expr, "!=", Literal(0)),
                          !.m.next_oid = @ + 1]
         IN  Compare(args_reg(tb, instr, 0))

\* the jr branch of the loop
translate_jr(tb, instr, is_return) ==
    IF instr.regs[1] # "ra"
    THEN [tb EXCEPT !.exc = "Jump tables are not supported yet."]
    ELSE IF ~is_return THEN [tb EXCEPT !.exc = "AssertionError"]
    ELSE [tb EXCEPT !.return_value = RegInfo_get_raw(tb.regs, "return_reg"),
                    !.stopped = TRUE]

\* one iteration of the loop over node.block.instructions
translate_instr(tb, instr, i, is_return) ==
    LET mnemonic == instr.mnemonic
        Assign(r) == IF r.tb.exc # "" THEN r.tb
                     ELSE set_reg(r.tb, instr.regs[1], r.expr, i)
        \* the CASES_HI_LO branch: the pair (hi, lo) of the table, each a
        \* BinaryOp of two registers read in turn (None for the high part
        \* of multu), then set_reg of hi and of lo
        first == IF mnemonic = "multu" THEN 0 ELSE 1
        Operation(t, op) ==
            LET Built(left, right) ==
                    IF right.tb.exc # "" THEN [expr |-> NoneExpr, tb |-> right.tb]
                    ELSE [expr |-> BinaryOp(right.tb.m.next_oid, left.expr, op, right.expr),
                          tb |-> [right.tb EXCEPT !.m.next_oid = @ + 1]]
                Right(left) ==
                    IF left.tb.exc # "" THEN [expr |-> NoneExpr, tb |-> left.tb]
                    ELSE Built(left, args_reg(left.tb, instr, first + 1))
            IN  Right(args_reg(t, instr, first))
        SetBoth(hi, lo) ==
            IF lo.tb.exc # "" THEN lo.tb
            ELSE set_reg(set_reg(lo.tb, "hi", hi.expr, i), "lo", lo.expr, i)
        Low(hi) ==
            IF hi.tb.exc # "" THEN hi.tb
            ELSE SetBoth(hi, Operation(hi.tb, IF mnemonic = "multu" THEN "*" ELSE "/"))
        HiLo == Low(IF mnemonic = "multu" THEN [expr |-> NoneExpr, tb |-> tb]
                    ELSE Operation(tb, "%"))
    IN  IF mnemonic = "nop" THEN tb
        ELSE IF mnemonic \in CASES_SOURCE_FIRST_EXPRESSION
        THEN translate_store(tb, instr, i)
        ELSE IF mnemonic \in CASES_BRANCHES THEN translate_branch(tb, instr)
        ELSE IF mnemonic = "jr" THEN translate_jr(tb, instr, is_return)
        ELSE IF mnemonic = "jal" THEN translate_jal(tb, instr, i)
        ELSE IF mnemonic \in CASES_HI_LO THEN HiLo
        ELSE IF mnemonic \in CASES_DESTINATION_FIRST
        THEN Assign(destination_first(tb, instr))
        ELSE [tb EXCEPT !.exc = "I don't know how to handle " \o mnemonic \o "!"]

RECURSIVE translate_instrs(_, _, _, _)
\* the loop over node.block.instructions from instruction i on
translate_instrs(tb, instructions, i, is_return) ==
    IF i > Len(instructions) \/ tb.exc # "" \/ tb.stopped THEN tb
    ELSE translate_instrs(translate_instr(tb, instructions[i], i, is_return),
                          instructions, i + 1, is_return)

\* BlockInfo(to_write, return_value, branch_condition, final_register_states)
BlockInfo(to_write, return_value, branch_condition, final_register_states) ==
    [tag |-> "BlockInfo", to_write |-> to_write, return_value |-> return_value,
     branch_condition |-> branch_condition,
     final_register_states |-> final_register_states]

\* a block that has no BlockInfo yet
NoBlockInfo == [tag |-> "None"]

\* translate_node_body(node, regs, stack_info): the BlockInfo, the objects
\* after the call, the RegInfo as the call leaves it, and the message of the
\* exception raised ("" for none)
translate_node_body(nodes, node, regs, m) ==
    LET Block(tb) ==
            IF tb.exc # ""
            THEN [block_info |-> NoBlockInfo, m |-> tb.m, regs |-> tb.regs, exc |-> tb.exc]
            ELSE [block_info |-> BlockInfo(tb.to_write, tb.return_value,
                                           tb.branch_condition, tb.regs),
                  m |-> IF tb.return_value # NoneExpr
                        THEN mark_used(tb.m, tb.return_value, 0)
                        ELSE IF tb.branch_condition # NoneExpr
                        THEN mark_used(tb.m, tb.branch_condition, 0)
                        ELSE tb.m,
                  regs |-> tb.regs, exc |-> ""]
    IN  Block(translate_instrs(NewBody(regs, m), nodes[node].instructions, 1,
                               nodes[node].is_return))

(***************************************************************************)
(* assign_phis                                                             *)
(***************************************************************************)
\* a == b comparing every field, type and copied included
PyEq_AllFields(a, b) == a = b

RECURSIVE PyEq(_, _)
\* a == b of Python for two expressions: the attrs classes with cmp=True
\* compare their fields but type (and copied); the classes with cmp=False
\* compare by identity, which oid, id and (reg, node) stand for
PyEq(a, b) ==
    IF a.tag # b.tag THEN FALSE
    ELSE IF a.tag \in {"LocalVar", "PassedInArg", "SubroutineArg", "Literal"}
    THEN a.value = b.value
    ELSE IF a.tag = "GlobalSymbol" THEN a.symbol_name = b.symbol_name
    ELSE IF a.tag = "AddressOf" THEN PyEq(a.expr, b.expr)
    ELSE IF a.tag = "StructAccess"
    THEN PyEq(a.struct_var, b.struct_var) /\ a.offset = b.offset
    ELSE IF a.tag \in {"BinaryOp", "UnaryOp", "Cast", "FuncCall"} THEN a.oid = b.oid
    ELSE IF a.tag = "EvalOnceExpr" THEN a.id = b.id
    ELSE IF a.tag = "PhiExpr" THEN a.reg = b.reg /\ a.node = b.node
    ELSE a = b

\* all(e == exprs[0] for e in exprs[1:]) never holding
AllEqual_Never(exprs) == FALSE

\* all(e == exprs[0] for e in exprs[1:])
AllEqual(exprs) == \A k \in 2..Len(exprs) : PyEq(exprs[k], exprs[1])

RECURSIVE fold(_, _, _)
\* the inner fold(expr, toplevel) of fold_mul_chains: [base, num]
fold(m, expr, toplevel) ==
    LET Leaf == [base |-> expr, num |-> 1]
        Wrapped(w) ==
            IF w.num # 1 /\ is_repeatable_expression(w.base) THEN w ELSE Leaf
        Negated(f) == [base |-> f.base, num |-> 0 - f.num]
        Rest ==
            IF expr.tag = "UnaryOp" /\ ~toplevel
            THEN Negated(fold(m, expr.expr, FALSE))
            ELSE IF expr.tag = "EvalOnceExpr"
            THEN Wrapped(fold(m, m.evals[expr.id].wrapped_expr, FALSE))
            ELSE Leaf
        Binary(l, r) ==
            IF expr.op = "<<" /\ expr.right.tag = "Literal"
            THEN IF toplevel /\ l.num = 1 /\ ~(1 <= expr.right.value /\ expr.right.value <= 4)
                 THEN Leaf
                 ELSE [base |-> l.base, num |-> l.num * 2 ^ expr.right.value]
            ELSE IF expr.op = "*" /\ expr.right.tag = "Literal"
            THEN [base |-> l.base, num |-> l.num * expr.right.value]
            ELSE IF expr.op = "+" /\ PyEq(l.base, r.base)
            THEN [base |-> l.base, num |-> l.num + r.num]
            ELSE IF expr.op = "-" /\ PyEq(l.base, r.base)
            THEN [base |-> l.base, num |-> l.num - r.num]
            ELSE Rest
    IN  IF expr.tag = "BinaryOp"
        THEN Binary(fold(m, expr.left, FALSE), fold(m, expr.right, FALSE))
        ELSE Rest

\* fold_mul_chains with every expression folded as an inner one
fold_mul_chains_NoTopLevel(m, expr, oid) ==
    LET Product(f) ==
            IF f.num = 1 THEN expr ELSE BinaryOp(oid, f.base, "*", Literal(f.num))
    IN  Product(fold(m, expr, FALSE))

\* fold_mul_chains(expr); oid is the identity of the BinaryOp it may create
fold_mul_chains(m, expr, oid) ==
    LET Product(f) ==
            IF f.num = 1 THEN expr ELSE BinaryOp(oid, f.base, "*", Literal(f.num))
    IN  Product(fold(m, expr, TRUE))

RECURSIVE propagates_to(_, _)
\* PhiExpr.propagates_to()
propagates_to(m, phi) ==
    IF m.phis[PhiKey(phi)].num_usages # 1 \/ m.phis[PhiKey(phi)].used_by = NoneExpr
    THEN phi
    ELSE propagates_to(m, m.phis[PhiKey(phi)].used_by)

\* SetPhiStmt.should_write(): [val, exc], exc for its assertion
SetPhiStmt_should_write(m, stmt) ==
    IF stmt.expr.tag = "PhiExpr" /\ propagates_to(m, stmt.expr) # stmt.expr
    THEN [val |-> FALSE,
          exc |-> propagates_to(m, stmt.expr) # propagates_to(m, stmt.phi)]
    ELSE [val |-> TRUE, exc |-> FALSE]

RECURSIVE final_exprs(_, _, _, _)
\* the first loop over phi.node.parents: st is [m, blocks, exc], the result
\* has the list exprs too
final_exprs(st, parents, reg, exprs) ==
    IF parents = <<>> \/ st.exc # "" THEN [st |-> st, exprs |-> exprs]
    ELSE LET block_info == st.blocks[Head(parents)]
             Rest(g) == final_exprs([st EXCEPT !.m = g.m, !.exc = g.exc],
                                    Tail(parents), reg, Append(exprs, g.expr))
         IN  IF block_info = NoBlockInfo
             THEN [st |-> [st EXCEPT !.exc = "AssertionError"], exprs |-> exprs]
             ELSE Rest(RegInfo_getitem(block_info.final_register_states, st.m, reg))

RECURSIVE mark_used_times(_, _, _)
\* for _ in range(n): mark_used(expr)
mark_used_times(m, expr, n) ==
    IF n = 0 THEN m ELSE mark_used_times(mark_used(m, expr, 0), expr, n - 1)

RECURSIVE set_phis(_, _, _)
\* the second loop over phi.node.parents
set_phis(st, parents, phi) ==
    IF parents = <<>> \/ st.exc # "" THEN st
    ELSE LET node == Head(parents)
             block_info == st.blocks[node]
             Rest(g) ==
                 IF g.exc # "" THEN [st EXCEPT !.exc = g.exc]
                 ELSE set_phis([st EXCEPT
                                   !.m = IF g.expr.tag = "PhiExpr"
                                         THEN PhiExpr_use(g.m, g.expr, phi)
                                         ELSE mark_used(g.m, g.expr, 0),
                                   !.blocks[node].to_write =
                                       to_write_append(@, SetPhiStmt(phi, g.expr))],
                               Tail(parents), phi)
         IN  Rest(RegInfo_getitem(block_info.final_register_states, st.m, phi.reg))

RECURSIVE assign_phis_while(_, _, _)
\* the while loop of assign_phis from index i (1-based) on
assign_phis_while(nodes, st, i) ==
    IF i > Len(st.m.used_phis) \/ st.exc # "" THEN st
    ELSE LET phi == st.m.used_phis[i]
             num_usages == st.m.phis[PhiKey(phi)].num_usages
             parents == nodes[phi.node].parents
             Resolve(f) ==
                 IF f.st.exc # "" THEN f.st
                 ELSE IF AllEqual(f.exprs)
                 THEN assign_phis_while(
                          nodes,
                          [f.st EXCEPT !.m = mark_used_times(
                              [@ EXCEPT !.phis[PhiKey(phi)].replacement_expr = f.exprs[1],
                                        !.phis[PhiKey(phi)].marked = @ + num_usages],
                              f.exprs[1], num_usages)],
                          i + 1)
                 ELSE assign_phis_while(nodes, set_phis(f.st, parents, phi), i + 1)
         IN  IF num_usages = 0 \/ parents = <<>>
             THEN [st EXCEPT !.exc = "AssertionError"]
             ELSE Resolve(final_exprs(
                      [st EXCEPT !.m.phis[PhiKey(phi)].processed = Append(@, num_usages)],
                      parents, phi.reg, <<>>))

\* the name of the counter-th phi of a register, without the counter
PhiName_NoCounter(reg, counter) == "phi_" \o reg

\* the name of the counter-th phi of a register
PhiName(reg, counter) ==
    IF counter > 1 THEN "phi_" \o reg \o "_" \o ToString(counter) ELSE "phi_" \o reg

RECURSIVE name_phis(_, _, _)
\* the naming loop of assign_phis from index i on; name_counter maps the
\* registers named so far to their counter
name_phis(m, i, name_counter) ==
    IF i > Len(m.used_phis) THEN m
    ELSE LET phi == m.used_phis[i]
             counter == (IF phi.reg \in DOMAIN name_counter
                         THEN name_counter[phi.reg] ELSE 0) + 1
         IN  IF m.phis[PhiKey(phi)].replacement_expr = NoneExpr
                /\ propagates_to(m, phi) = phi
             THEN name_phis([m EXCEPT !.phis[PhiKey(phi)].name = PhiName(phi.reg, counter),
                                      !.stack_info.phi_vars = Append(@, phi)],
                            i + 1, (phi.reg :> counter) @@ name_counter)
             ELSE name_phis(m, i + 1, name_counter)

\* assign_phis(used_phis, stack_info): [m, blocks, exc]
assign_phis(nodes, m, block_infos) ==
    LET Name(st) == IF st.exc # "" THEN st
                    ELSE [st EXCEPT !.m = name_phis(st.m, 1, [r \in {} |-> 0])]
    IN  Name(assign_phis_while(nodes, [m |-> m, blocks |-> block_infos, exc |-> ""], 1))

(***************************************************************************)
(* translate_graph_from_block and translate_to_ast, as operators.          *)
(***************************************************************************)
\* initial_regs of translate_to_ast, for the registers of Regs; the Type
\* object made for an argument register is named after the register
initial_regs ==
    [r \in Regs |->
        IF r = "a0" THEN PassedInArg(0, FALSE, <<"initial", "a0">>)
        ELSE IF r = "a1" THEN PassedInArg(4, FALSE, <<"initial", "a1">>)
        ELSE IF r \in CALLEE_SAVE_REGS \cup SPECIAL_REGS \cup {"sp"} THEN GlobalSymbol(r)
        ELSE NoneExpr]

\* start_reg of translate_to_ast
start_reg == RegInfo(initial_regs, {r \in Regs : initial_regs[r] # NoneExpr})

\* new_contents after the loop over phi_regs keeping the registers that are
\* not always set
new_contents_KeepClobbered(nodes, child, regs, phi_regs) ==
    [r \in Regs |->
        IF r \in phi_regs /\ reg_always_set(nodes, child, r, regs.contents[r] # NoneExpr).val
        THEN PhiExpr(r, child)
        ELSE regs.contents[r]]

\* new_contents after the loop over phi_regs, for the parent's RegInfo regs
new_contents(nodes, child, regs, phi_regs) ==
    [r \in Regs |->
        IF r \in phi_regs
        THEN IF reg_always_set(nodes, child, r, regs.contents[r] # NoneExpr).val
             THEN PhiExpr(r, child)
             ELSE NoneExpr
        ELSE regs.contents[r]]

\* the body of the loop over node.immediately_dominates up to the recursive
\* call: new_regs, the objects with the new PhiExprs, and exc when
\* output_regs_for_instr raises
descend(nodes, child, regs, m) ==
    LET NewRegs(contents) ==
            [regs |-> RegInfo(contents, {}),
             m |-> [m EXCEPT !.phis =
                       [k \in {<<r, child>> : r \in {x \in Regs : contents[x] = PhiExpr(x, child)}}
                           |-> PhiFields] @@ @],
             exc |-> ""]
        Phis_(phi_regs) ==
            IF phi_regs.exc
            THEN [regs |-> regs, m |-> m, exc |-> "AssertionError"]
            ELSE NewRegs(new_contents(nodes, child, regs, phi_regs.regs))
    IN  Phis_(regs_clobbered_until_dominator(nodes, child))

\* translate_graph_from_block(node, regs, ...) up to add_block_info: the
\* BlockInfo, the objects after, and the exception that leaves the call
translate_block(nodes, node, regs, m, stop_on_error) ==
    LET Caught(r) ==
            IF r.exc = "" THEN [block_info |-> r.block_info, m |-> r.m, exc |-> ""]
            ELSE IF stop_on_error
            THEN [block_info |-> NoBlockInfo, m |-> r.m, exc |-> r.exc]
            ELSE [block_info |-> BlockInfo(<<CommentStmt("Error: " \o r.exc)>>,
                                           NoneExpr, NoneExpr, r.regs),
                  m |-> r.m, exc |-> ""]
    IN  Caught(translate_node_body(nodes, node, regs, m))

\* no register file handed to a node yet
NoRegInfo == [tag |-> "None"]

\* the variables of Spec while another specification runs
DriverIdle ==
    /\ prog = NoProgram
    /\ pc = "idle"
    /\ exc = ""
    /\ blocks = <<>>
    /\ passed = <<>>
    /\ pending = <<>>
    /\ assign_phis_calls = 0

\* the variables of SpecUnit, SpecBlock and SpecParse while another
\* specification runs: no operation called yet, no block being translated,
\* no file being read
UnitIdle ==
    /\ unit = [op |-> "none"]
    /\ frame = [function |-> <<>>]
    /\ mips_file = [read |-> <<>>]

(***************************************************************************)
(* SpecType: Type objects are created by the factories and then unified    *)
(* and read in any order.                                                  *)
(***************************************************************************)
TermIds == 1..Len(types)

NoCall == [op |-> "none", a |-> 0, b |-> 0, ret |-> "None", rep |-> 0, hops |-> 0]

\* no str() call made yet
NoStr == [expr |-> NoneExpr, s |-> ""]

RECURSIVE Hops(_, _)
\* How many uf_parent links lie between t and the end of its chain
Hops(ts, t) == IF ts[t].uf_parent = None THEN 0 ELSE 1 + Hops(ts, ts[t].uf_parent)

\* The Type objects of a behaviour are created up front, each by a factory
\* call. Objects are interchangeable and a creation touches no other object,
\* so the objects are numbered in the order of FactoryTerms.
InitType ==
    /\ \E idx \in [1..MaxTerms -> 1..Len(FactoryTerms)] :
          /\ \A i \in 1..(MaxTerms - 1) : idx[i] <= idx[i + 1]
          /\ types = [i \in 1..MaxTerms |-> FactoryTerms[idx[i]]]
    /\ tcall = NoCall
    /\ mem = EmptyMem
    /\ printed = NoStr
    /\ DriverIdle
    /\ UnitIdle

\* a.unify(b)
Unify ==
    \E a \in TermIds, b \in TermIds :
        LET r == unify(types, a, b)
        IN  /\ types' = r.ts
            /\ tcall' = [op |-> "unify", a |-> a, b |-> b, ret |-> r.ret, rep |-> 0,
                         hops |-> 0]
            /\ UNCHANGED <<evalVars, driverVars, unitVars>>

\* t.get_representative()
GetRepresentative ==
    \E t \in TermIds :
        LET r == get_representative(types, t)
        IN  /\ types' = r.ts
            /\ tcall' = [op |-> "get_representative", a |-> t, b |-> 0,
                         ret |-> "None", rep |-> r.rep, hops |-> Hops(types, t)]
            /\ UNCHANGED <<evalVars, driverVars, unitVars>>

NextType ==
    \/ Unify
    \/ GetRepresentative

SpecType == InitType /\ [][NextType]_vars

(***************************************************************************)
(* SpecEval: the use counting and printing of EvalOnceExpr and PhiExpr,    *)
(* driven the way translate_node_body drives it: set_reg wraps a BinaryOp  *)
(* or a PhiExpr with always_emit = False under the register's name, a jal  *)
(* wraps a FuncCall with always_emit = True under "ret", instruction       *)
(* handlers and statements call mark_used on what they read, and the       *)
(* output calls str() once the translation is over (printed = NoStr until  *)
(* then).                                                                  *)
(***************************************************************************)
\* the PhiExpr objects created so far
Phis(m) == {PhiExpr(k[1], k[2]) : k \in DOMAIN m.phis}

\* the EvalOnceExpr objects created so far
Evals(m) == {EvalOnceExpr(i) : i \in 1..Len(m.evals)}

\* what a register can hold when an instruction reads it
Operands(m) == Evals(m) \cup Phis(m) \cup {Literal(1)}

InitEval ==
    /\ types = <<>>
    /\ tcall = NoCall
    /\ mem = EmptyMem
    /\ printed = NoStr
    /\ DriverIdle
    /\ UnitIdle

\* PhiExpr(reg, node, type, used_phis) constructed for t0 at the node whose
\* body is translated (a node has one phi for a register)
NewPhi ==
    /\ printed = NoStr
    /\ PhiKey(PhiExpr("t0", 1)) \notin DOMAIN mem.phis
    /\ mem' = [mem EXCEPT !.phis = (PhiKey(PhiExpr("t0", 1)) :> PhiFields) @@ @]
    /\ UNCHANGED <<typeVars, unitVars, driverVars, printed>>

\* set_reg(t0, expr) of a non-repeatable expr: eval_once(expr, False, "t0").
\* expr is the PhiExpr itself (move), left + left (addu of one register with
\* itself) or left + 1 (addiu)
SetRegEvalOnce ==
    /\ printed = NoStr
    /\ Len(mem.evals) < MaxEvalOnce
    /\ \E left \in Operands(mem), right \in Operands(mem), wrap_phi \in BOOLEAN :
          /\ wrap_phi => left \in Phis(mem)
          /\ right \in {left, Literal(1)}
          /\ LET expr == IF wrap_phi THEN left
                         ELSE BinaryOp(mem.next_oid, left, "+", right)
             IN  mem' = eval_once([mem EXCEPT !.next_oid = @ + 1], expr, FALSE, "t0").m
    /\ UNCHANGED <<typeVars, unitVars, driverVars, printed>>

\* the jal case: eval_once(FuncCall(...), always_emit=True, prefix='ret')
CallEvalOnce ==
    /\ printed = NoStr
    /\ Len(mem.evals) < MaxEvalOnce
    /\ \E arg \in Operands(mem) :
          mem' = eval_once([mem EXCEPT !.next_oid = @ + 1],
                           FuncCall(mem.next_oid, "foo", <<arg>>), TRUE, "ret").m
    /\ UNCHANGED <<typeVars, unitVars, driverVars, printed>>

\* a handler or statement reads a register that holds an EvalOnceExpr:
\* mark_used(expr). (A PhiExpr gets its uses through the expressions that
\* hold it here; Spec has the reads of a register that holds a PhiExpr.)
MarkUsed ==
    /\ printed = NoStr
    /\ \E expr \in Evals(mem) :
          /\ mem.evals[expr.id].num_usages < MaxUsages
          /\ mem' = mark_used(mem, expr, 0)
    /\ UNCHANGED <<typeVars, unitVars, driverVars, printed>>

\* str(expr) of an EvalOnceExpr
StrEvalOnce ==
    /\ \E expr \in Evals(mem) :
          LET r == str(mem, expr)
          IN  /\ mem' = r.m
              /\ printed' = [expr |-> expr, s |-> r.s]
    /\ UNCHANGED <<typeVars, unitVars, driverVars>>

NextEval ==
    \/ NewPhi
    \/ SetRegEvalOnce
    \/ CallEvalOnce
    \/ MarkUsed
    \/ StrEvalOnce

SpecEval == InitEval /\ [][NextEval]_vars

(***************************************************************************)
(* Spec: translate_to_ast. pending lists the calls of                      *)
(* translate_graph_from_block still to make, in the order of the           *)
(* depth-first recursion; a child's register file is computed from its     *)
(* immediate dominator's final one when the call is made.                  *)
(***************************************************************************)
Init ==
    /\ types = <<>>
    /\ tcall = NoCall
    /\ printed = NoStr
    /\ mem = EmptyMem
    /\ \E i \in 1..Len(Shapes), stop_on_error \in BOOLEAN :
          \E bodies \in [1..Len(Graphs[i]) -> Bodies] :
             prog = [stop_on_error |-> stop_on_error,
                     nodes |-> FlowGraph(Graphs[i], bodies)]
    /\ pc = "start"
    /\ exc = ""
    /\ blocks = [n \in 1..Len(prog.nodes) |-> NoBlockInfo]
    /\ passed = [n \in 1..Len(prog.nodes) |-> NoRegInfo]
    /\ pending = <<>>
    /\ assign_phis_calls = 0
    /\ UnitIdle

\* translate_to_ast up to the return of translate_node_body for the start
\* node and add_block_info
TranslateStart ==
    /\ pc = "start"
    /\ LET Added(r) ==
               /\ mem' = r.m
               /\ passed' = [passed EXCEPT ![1] = start_reg]
               /\ IF r.exc # ""
                  THEN /\ pc' = "raised"
                       /\ exc' = "translate_node_body"
                       /\ UNCHANGED <<blocks, pending>>
                  ELSE /\ pc' = "translate"
                       /\ exc' = ""
                       /\ blocks' = [blocks EXCEPT ![1] = r.block_info]
                       /\ pending' = prog.nodes[1].immediately_dominates
       IN  Added(translate_block(prog.nodes, 1, start_reg, mem, prog.stop_on_error))
    /\ UNCHANGED <<typeVars, unitVars, printed, prog, assign_phis_calls>>

\* the next iteration of a loop over node.immediately_dominates: the
\* register file of the child and the recursive call up to add_block_info
TranslateChild ==
    /\ pc = "translate"
    /\ pending # <<>>
    /\ LET child == Head(pending)
           parent == prog.nodes[child].immediate_dominator
           Added(d, r) ==
               /\ mem' = r.m
               /\ passed' = [passed EXCEPT ![child] = d.regs]
               /\ IF r.exc # ""
                  THEN /\ pc' = "raised"
                       /\ exc' = "translate_node_body"
                       /\ UNCHANGED <<blocks, pending>>
                  ELSE /\ UNCHANGED <<pc, exc>>
                       /\ blocks' = [blocks EXCEPT ![child] = r.block_info]
                       /\ pending' = prog.nodes[child].immediately_dominates
                                         \o Tail(pending)
           Descended(d) ==
               IF d.exc # ""
               THEN /\ pc' = "raised"
                    /\ exc' = "regs_clobbered_until_dominator"
                    /\ UNCHANGED <<mem, blocks, passed, pending>>
               ELSE Added(d, translate_block(prog.nodes, child, d.regs, d.m,
                                             prog.stop_on_error))
       IN  Descended(descend(prog.nodes, child,
                             blocks[parent].final_register_states, mem))
    /\ UNCHANGED <<typeVars, unitVars, printed, prog, assign_phis_calls>>

\* the return of the outermost translate_graph_from_block and the call of
\* assign_phis, after which translate_to_ast returns
AssignPhis ==
    /\ pc = "translate"
    /\ pending = <<>>
    /\ LET Returned(st) ==
               /\ mem' = st.m
               /\ blocks' = st.blocks
               /\ pc' = IF st.exc # "" THEN "raised" ELSE "done"
               /\ exc' = IF st.exc # "" THEN "assign_phis" ELSE ""
       IN  Returned(assign_phis(prog.nodes, mem, blocks))
    /\ assign_phis_calls' = assign_phis_calls + 1
    /\ UNCHANGED <<typeVars, unitVars, printed, prog, passed, pending>>

Next ==
    \/ TranslateStart
    \/ TranslateChild
    \/ AssignPhis

Spec == Init /\ [][Next]_vars

(***************************************************************************)
(* SpecUnit: single calls of the operations of StackInfo, RegInfo, Type    *)
(* and the expression classes, on inputs drawn from small sets. Each       *)
(* behaviour makes one call on freshly constructed objects; unit records   *)
(* the call: its name, its inputs and what it returned.                    *)
(***************************************************************************)
RECURSIVE SeqsUpTo(_, _)
\* the sequences over S of length at most n
SeqsUpTo(S, n) ==
    IF n = 0 THEN {<<>>}
    ELSE LET shorter == SeqsUpTo(S, n - 1)
         IN  shorter \cup {Append(q, x) : q \in shorter, x \in S}

InitUnit ==
    /\ types = <<>>
    /\ tcall = NoCall
    /\ mem = EmptyMem
    /\ printed = NoStr
    /\ DriverIdle
    /\ UnitIdle

\* stack_info.get_stack_var(location, store) on the layout get_stack_info
\* reads from a start node. The start node is drawn from the instructions
\* get_stack_info looks at (moving sp, saving ra, saving a callee-save
\* register), the offset from those of a 16-byte frame, one below it and two
\* above it.
GetStackVar ==
    /\ unit.op = "none"
    /\ \E prologue \in SeqsUpTo({Instruction("addiu", <<"sp", "sp">>, -16, "")}
                                 \cup {Instruction("sw", <<r, "sp">>, k, "") :
                                           r \in {"ra", "s0", "s1"}, k \in {0, 4, 8}},
                                 MaxPrologue),
          location \in {-4, 0, 4, 8, 12, 16, 20},
          store \in BOOLEAN :
           /\ unit' = [op |-> "get_stack_var",
                       stack_info |-> get_stack_info(prologue),
                       location |-> location,
                       store |-> store,
                       ret |-> get_stack_var(get_stack_info(prologue), location, store)]
           /\ UNCHANGED <<typeVars, evalVars, driverVars, frame, mips_file>>

\* regs[key], for a register file that holds value in key, and a stack_info
\* that has discovered the arguments at the offsets of found already.
\* __getitem__ assigns nothing to regs.contents: after is the register file
\* as the call leaves it.
GetItem ==
    /\ unit.op = "none"
    /\ \E key \in {"a0", "a1", "t0", "s0"},
          value \in {PassedInArg(k, c, <<"initial", "a0">>) : k \in {0, 4, 8, 12}, c \in BOOLEAN}
                    \cup {GlobalSymbol("s0"), NoneExpr},
          found \in SUBSET {0, 4, 8, 12} :
           LET regs == RegInfo([initial_regs EXCEPT ![key] = value], DOMAIN initial_regs)
               m == [EmptyMem EXCEPT
                        !.stack_info.arguments =
                            [i \in 1..Cardinality(found) |->
                                PassedInArg(SortedSeq(found)[i], TRUE,
                                            <<"arg", SortedSeq(found)[i]>>)],
                        !.stack_info.unique_type_map = {<<"arg", k>> : k \in found}]
           IN  /\ unit' = [op |-> "getitem", regs |-> regs, m |-> m, key |-> key,
                           ret |-> RegInfo_getitem(regs, m, key), after |-> regs]
               /\ UNCHANGED <<typeVars, evalVars, driverVars, frame, mips_file>>

\* regs[key] = value, for a register file in which key holds old, return_reg
\* holds old_return and the registers of written were written in the block
SetItem ==
    /\ unit.op = "none"
    /\ \E key \in Regs, value \in {NoneExpr, Literal(1), GlobalSymbol("s0")},
          old \in {NoneExpr, Literal(7)}, old_return \in {NoneExpr, Literal(8)},
          written \in {{}, {"v0", "return_reg"}, {"t0", "a0"}} :
           LET regs == RegInfo([[initial_regs EXCEPT !["return_reg"] = old_return]
                                   EXCEPT ![key] = old], written)
           IN  /\ unit' = [op |-> "setitem", regs |-> regs, key |-> key, value |-> value,
                           ret |-> RegInfo_setitem(regs, key, value)]
               /\ UNCHANGED <<typeVars, evalVars, driverVars, frame, mips_file>>

\* a == b, then a.type.unify(b.type), then a == b again, for two expression
\* objects x and y. The Type objects are those of the heap ts (a.type is
\* ts[1], b.type is ts[ty]); the type field of an expression shows its Type
\* as a reader sees it, the kind, size and sign of its representative. x and
\* y are one object when their oid, id or (reg, node) agree, and one object
\* has one type.
Equal ==
    /\ unit.op = "none"
    /\ \E x, y \in {Literal(1), Literal(2), GlobalSymbol("x"), GlobalSymbol("y"),
                     LocalVar(4), LocalVar(8), SubroutineArg(4), SubroutineArg(8),
                     AddressOf(LocalVar(4)), AddressOf(LocalVar(8)),
                     StructAccess(GlobalSymbol("x"), 4), StructAccess(GlobalSymbol("x"), 8),
                     EvalOnceExpr(1), EvalOnceExpr(2), PhiExpr("a0", 1), PhiExpr("a0", 2)}
                    \cup {[tag |-> "PassedInArg", value |-> k, copied |-> c] :
                              k \in {0, 4}, c \in BOOLEAN}
                    \cup {BinaryOp(oid, Literal(1), "+", Literal(2)) : oid \in {1, 2}}
                    \cup {UnaryOp(oid, "-", Literal(1)) : oid \in {1, 2}}
                    \cup {Cast(oid, Literal(1), FALSE, TRUE) : oid \in {1, 2}}
                    \cup {FuncCall(oid, "f", <<Literal(1)>>) : oid \in {1, 2}},
          t1, t2 \in {TypeFactory(f) : f \in {"any", "intish", "s32", "f32", "ptr"}},
          ty \in {1, 2} :
           LET ts == <<t1, t2>>
               Seen(heap, t) ==
                   [f \in {"kind", "size", "sign"} |->
                       get_representative(heap, t).ts[get_representative(heap, t).rep][f]]
               WithType(e, heap, t) ==
                   [f \in DOMAIN e \cup {"type"} |-> IF f = "type" THEN Seen(heap, t) ELSE e[f]]
               Compared(unified) ==
                   [op |-> "eq", same_type |-> ty = 1,
                    a |-> WithType(x, ts, 1), b |-> WithType(y, ts, ty),
                    eq |-> PyEq(WithType(x, ts, 1), WithType(y, ts, ty)),
                    unified |-> unified.ret,
                    a_after |-> WithType(x, unified.ts, 1),
                    b_after |-> WithType(y, unified.ts, ty),
                    eq_after |-> PyEq(WithType(x, unified.ts, 1), WithType(y, unified.ts, ty))]
           IN  /\ x.tag = y.tag /\ x.tag \in {"BinaryOp", "UnaryOp", "Cast", "FuncCall"}
                       /\ x.oid = y.oid => ty = 1
               /\ x.tag \in {"EvalOnceExpr", "PhiExpr"} /\ x = y => ty = 1
               /\ unit' = Compared(unify(ts, 1, ty))
               /\ UNCHANGED <<typeVars, evalVars, driverVars, frame, mips_file>>

\* str(ts[t]) for two Type objects as the factories return them, or as a
\* unify of the first with the second leaves them
TypeStr ==
    /\ unit.op = "none"
    /\ \E i, j \in 1..Len(FactoryTerms), unified \in BOOLEAN, t \in {1, 2} :
           LET Printed(ts) ==
                   [op |-> "str", ts |-> ts, t |-> t,
                    type |-> get_representative(ts, t).ts[get_representative(ts, t).rep],
                    ret |-> Type_str(ts, t)]
           IN  /\ unit' = Printed(IF unified
                                  THEN unify(<<FactoryTerms[i], FactoryTerms[j]>>, 1, 2).ts
                                  ELSE <<FactoryTerms[i], FactoryTerms[j]>>)
               /\ UNCHANGED <<typeVars, evalVars, driverVars, frame, mips_file>>

\* the objects fold_mul_chains meets: three EvalOnceExprs, wrapping x * 3,
\* x + y, and (x + y) * 2
FoldObjects ==
    [EmptyMem EXCEPT
        !.evals =
            << EvalOnceFields(BinaryOp(101, GlobalSymbol("x"), "*", Literal(3)), FALSE, "t0"),
               EvalOnceFields(BinaryOp(102, GlobalSymbol("x"), "+", GlobalSymbol("y")),
                              FALSE, "t1"),
               EvalOnceFields(BinaryOp(103, BinaryOp(104, GlobalSymbol("x"), "+",
                                                     GlobalSymbol("y")),
                                       "*", Literal(2)), FALSE, "t2") >>,
        !.next_oid = 105]

\* the expressions one instruction builds over the operands S: a shift or a
\* product by a literal, a sum, a difference, a negation; oid names the new
\* object and left, right the sets its operands come from
FoldBuilt(oid, left, right) ==
    {BinaryOp(oid, a, "<<", Literal(k)) : a \in left, k \in {0, 1, MaxShift}}
    \cup {BinaryOp(oid, a, "*", Literal(c)) : a \in left, c \in {3, -1}}
    \cup {BinaryOp(oid, a, op, b) : a \in left, b \in right, op \in {"+", "-"}}
    \cup {UnaryOp(oid, "-", a) : a \in left}

\* fold_mul_chains(expr) for an expression an instruction builds from two
\* operands, each a register value (a symbol, a literal, an EvalOnceExpr) or
\* an expression an earlier instruction built from such values
FoldMulChains ==
    /\ unit.op = "none"
    /\ LET values == {GlobalSymbol("x"), GlobalSymbol("y"), Literal(3),
                      EvalOnceExpr(1), EvalOnceExpr(2), EvalOnceExpr(3)}
       IN  \E expr \in FoldBuilt(1, values \cup FoldBuilt(2, values, values),
                                   values \cup FoldBuilt(3, values, values)) :
               /\ unit' = [op |-> "fold_mul_chains", m |-> FoldObjects, expr |-> expr,
                           ret |-> fold_mul_chains(FoldObjects, expr, FoldObjects.next_oid)]
               /\ UNCHANGED <<typeVars, evalVars, driverVars, frame, mips_file>>

NextUnit ==
    \/ GetStackVar
    \/ GetItem
    \/ SetItem
    \/ Equal
    \/ TypeStr
    \/ FoldMulChains

SpecUnit == InitUnit /\ [][NextUnit]_vars

(***************************************************************************)
(* SpecBlock: translate_node_body, one instruction at a time, on a         *)
(* function made of a start block and at most one block after it. frame    *)
(* holds the blocks as far as they are known (function), the state of the  *)
(* running call (tb) after frame.i instructions of the last block, the     *)
(* registers and objects the call started from (entry), and the BlockInfo  *)
(* of the finished blocks (block_infos). The start block opens with a      *)
(* prologue, from which get_stack_info reads the layout, and two li; the   *)
(* instructions that follow are drawn from BlockInstrs, none of which      *)
(* get_stack_info looks at.                                                *)
(***************************************************************************)
BlockInstrs ==
    {Instruction("sw", <<"t0", "sp">>, 24, ""), Instruction("sw", <<"t1", "sp">>, 24, ""),
     Instruction("sw", <<"a0", "sp">>, 24, ""), Instruction("sw", <<"v0", "sp">>, 24, ""),
     Instruction("lw", <<"t0", "sp">>, 24, ""), Instruction("lw", <<"t1", "sp">>, 24, ""),
     Instruction("lw", <<"v0", "sp">>, 24, ""), Instruction("lw", <<"s0", "sp">>, 16, ""),
     Instruction("sw", <<"t0", "sp">>, 8, ""), Instruction("sw", <<"t1", "sp">>, 4, ""),
     Instruction("li", <<"a0">>, 3, ""), Instruction("li", <<"a1">>, 4, ""),
     Instruction("jal", <<>>, 0, "foo"),
     Instruction("lui", <<"v0">>, 4660, ""), Instruction("ori", <<"v0", "v0">>, 22136, ""),
     Instruction("addiu", <<"a0", "sp">>, 4, ""), Instruction("lw", <<"ra", "sp">>, 12, ""),
     Instruction("jr", <<"ra">>, 0, "")}

\* a function without a frame, a leaf that saves s0, a non-leaf that saves
\* ra and s0, a non-leaf that saves ra only; translate_to_ast's start_reg
\* and the stack_info of the start block
InitBlock ==
    /\ types = <<>>
    /\ tcall = NoCall
    /\ mem = EmptyMem
    /\ printed = NoStr
    /\ DriverIdle
    /\ unit = [op |-> "none"]
    /\ mips_file = [read |-> <<>>]
    /\ \E prologue \in {<<>>,
                        <<Instruction("addiu", <<"sp", "sp">>, -32, ""),
                          Instruction("sw", <<"s0", "sp">>, 16, "")>>,
                        <<Instruction("addiu", <<"sp", "sp">>, -32, ""),
                          Instruction("sw", <<"ra", "sp">>, 20, ""),
                          Instruction("sw", <<"s0", "sp">>, 16, "")>>,
                        <<Instruction("addiu", <<"sp", "sp">>, -16, ""),
                          Instruction("sw", <<"ra", "sp">>, 12, "")>>} :
           LET start == prologue \o <<Instruction("li", <<"t0">>, 1, ""),
                                      Instruction("li", <<"t1">>, 2, "")>>
               regs == RegInfo(initial_regs,
                               {r \in Regs : initial_regs[r] # NoneExpr})
               objects == [EmptyMem EXCEPT !.stack_info = get_stack_info(start)]
           IN  frame = [function |-> <<start>>, i |-> 0, drawn |-> 0,
                        entry |-> [regs |-> regs, m |-> objects],
                        tb |-> NewBody(regs, objects),
                        block_infos |-> <<>>]

\* one iteration of the loop of translate_node_body: the next instruction of
\* the block, or one more instruction the block turns out to have
TranslateInstr ==
    LET block == frame.function[Len(frame.function)]
    IN  /\ frame.tb.exc = "" /\ ~frame.tb.stopped
        /\ frame.i < Len(block) \/ frame.drawn < MaxInstrs
        /\ \E instr \in (IF frame.i < Len(block) THEN {block[frame.i + 1]} ELSE BlockInstrs) :
               frame' = [frame EXCEPT
                            !.function[Len(frame.function)] =
                                IF frame.i < Len(block) THEN @ ELSE Append(@, instr),
                            !.drawn = IF frame.i < Len(block) THEN @ ELSE @ + 1,
                            !.i = @ + 1,
                            !.tb = translate_instr(@, instr, frame.i + 1,
                                                   instr.mnemonic = "jr")]
        /\ UNCHANGED <<typeVars, evalVars, driverVars, unit, mips_file>>

\* the block ends without a jump: translate_graph_from_block gives it its
\* BlockInfo (a CommentStmt when the call raised) and descends to the one
\* node it immediately dominates, whose only parent it is; no register is
\* clobbered on the way, and the new RegInfo has an empty written_in_block
EndBlock ==
    LET block == frame.function[Len(frame.function)]
        Descend(r) ==
            [frame EXCEPT
                !.function = Append(@, <<>>),
                !.i = 0,
                !.block_infos = Append(@, r.block_info),
                !.entry = [regs |-> RegInfo(frame.tb.regs.contents, {}), m |-> r.m],
                !.tb = NewBody(RegInfo(frame.tb.regs.contents, {}), r.m)]
    IN  /\ Len(frame.function) = 1
        /\ frame.i = Len(block)
        /\ ~frame.tb.stopped
        /\ frame' = Descend(translate_block(<<[instructions |-> block, is_return |-> FALSE]>>,
                                            1, frame.entry.regs, frame.entry.m, FALSE))
        /\ UNCHANGED <<typeVars, evalVars, driverVars, unit, mips_file>>

NextBlock ==
    \/ TranslateInstr
    \/ EndBlock

SpecBlock == InitBlock /\ [][NextBlock]_vars

(***************************************************************************)
(* SpecParse: parse_file, one line of the file at a time. A line is the    *)
(* sequence of its characters, the newline that ends it included, as the   *)
(* iteration over the file yields it. An Instruction is the object         *)
(* parse_instruction returns for the stripped text of its line; that       *)
(* function is outside this repository's sources, and the object is        *)
(* identified by the text it was parsed from.                              *)
(***************************************************************************)
\* the lines a file is made of: a blank line, two comments, a directive, a
\* label, two function labels, a jump-table label, and four instructions,
\* one of them after a comment, one before a comment, one between two
Lines ==
    {<<"\n">>,
     <<"#", " ", "c", "\n">>,
     <<"/", "*", "a", "*", "/", "\n">>,
     <<".", "s", "e", "t", " ", "x", "\n">>,
     <<".", "L", "1", ":", "\n">>,
     <<"g", "l", "a", "b", "e", "l", " ", "f", "\n">>,
     <<"g", "l", "a", "b", "e", "l", " ", "g", "\n">>,
     <<"g", "l", "a", "b", "e", "l", " ", "L", "8", "0", "0", "0", "1", "2", "3", "4", "\n">>,
     <<"n", "o", "p", "\n">>,
     <<"/", "*", "a", "*", "/", " ", "j", "r", " ", "r", "a", "\n">>,
     <<"l", "w", " ", "a", " ", "#", " ", "c", "\n">>,
     <<"/", "*", "a", "*", "/", " ", "l", "i", " ", "b", " ", "/", "*", "c", "*", "/", "\n">>}

\* one iteration of the loop of parse_file on mips_file mf: the functions
\* and the current function (its index, 0 for None) after it, and the
\* exception the iteration raises ("" for none)
parse_line(mf, line) ==
    LET at(s, i, p) == i + Len(p) - 1 <= Len(s) /\ SubSeq(s, i, i + Len(p) - 1) = p
        Min(S) == CHOOSE i \in S : \A j \in S : i <= j
        Max(S) == CHOOSE i \in S : \A j \in S : j <= i
        \* re.sub(r'/\*.*\*/', '', line): from the first opening that a closing
        \* follows to the last closing of the line
        closings(s) == {j \in 1..Len(s) : at(s, j, <<"*", "/">>)}
        openings(s) == {i \in 1..Len(s) : /\ at(s, i, <<"/", "*">>)
                                          /\ \E j \in closings(s) : j >= i + 2}
        without_comment(s) ==
            IF openings(s) = {} THEN s
            ELSE SubSeq(s, 1, Min(openings(s)) - 1) \o SubSeq(s, Max(closings(s)) + 2, Len(s))
        \* re.sub(r'#.*$', '', line): from the first # to the end of the line,
        \* the newline left in place
        without_hash(s) ==
            IF {i \in 1..Len(s) : s[i] = "#"} = {} THEN s
            ELSE SubSeq(s, 1, Min({i \in 1..Len(s) : s[i] = "#"}) - 1)
                     \o (IF s # <<>> /\ s[Len(s)] = "\n" THEN <<"\n">> ELSE <<>>)
        \* str.strip(chars)
        strip(s, chars) ==
            IF {i \in 1..Len(s) : s[i] \notin chars} = {} THEN <<>>
            ELSE SubSeq(s, Min({i \in 1..Len(s) : s[i] \notin chars}),
                        Max({i \in 1..Len(s) : s[i] \notin chars}))
        \* line.split(' ')[1]
        spaces(s) == {i \in 1..Len(s) : s[i] = " "}
        second(s) ==
            SubSeq(s, Min(spaces(s)) + 1,
                   Min({i \in spaces(s) : i > Min(spaces(s))} \cup {Len(s) + 1}) - 1)
        \* re.match('L[0-9A-F]{8}', name)
        is_jumptable(name) ==
            /\ Len(name) >= 9
            /\ name[1] = "L"
            /\ \A i \in 2..9 : name[i] \in {"0", "1", "2", "3", "4", "5", "6", "7", "8", "9",
                                             "A", "B", "C", "D", "E", "F"}
        Label(name) == [tag |-> "Label", name |-> name]
        raised(e) == [functions |-> mf.functions,
                      current_function |-> mf.current_function, exc |-> e]
        \* Function.new_label, new_instruction (jumptable FALSE) and
        \* new_jumptable_label (jumptable TRUE) through MIPSFile's methods
        appended(item, jumptable) ==
            IF mf.current_function = 0 THEN raised("AssertionError")
            ELSE [functions |->
                      [mf.functions EXCEPT
                          ![mf.current_function].body = Append(@, item),
                          ![mf.current_function].jumptable_labels =
                              IF jumptable THEN Append(@, item) ELSE @],
                  current_function |-> mf.current_function, exc |-> ""]
        \* MIPSFile.new_function
        new_function(name) ==
            [functions |-> Append(mf.functions,
                                  [name |-> name, body |-> <<>>, jumptable_labels |-> <<>>]),
             current_function |-> Len(mf.functions) + 1, exc |-> ""]
        Dispatch(s) ==
            IF s = <<>> THEN raised("")
            ELSE IF s[1] = "." /\ s[Len(s)] = ":"
            THEN appended(Label(strip(s, {".", ":"})), FALSE)
            ELSE IF s[1] = "." THEN raised("")
            ELSE IF at(s, 1, <<"g", "l", "a", "b", "e", "l">>)
            THEN IF spaces(s) = {} THEN raised("IndexError")
                 ELSE IF is_jumptable(second(s))
                 THEN appended(Label(second(s)), TRUE)
                 ELSE new_function(second(s))
            ELSE appended([tag |-> "Instruction", line |-> s], FALSE)
    IN  Dispatch(strip(without_hash(without_comment(line)), {" ", "\t", "\n"}))

\* MIPSFile(options.filename) before the first line is read
InitParse ==
    /\ types = <<>>
    /\ tcall = NoCall
    /\ mem = EmptyMem
    /\ printed = NoStr
    /\ DriverIdle
    /\ unit = [op |-> "none"]
    /\ frame = [function |-> <<>>]
    /\ mips_file = [read |-> <<>>, functions |-> <<>>, current_function |-> 0, exc |-> ""]

\* the next line of the file goes through the loop body
ParseLine ==
    /\ mips_file.exc = ""
    /\ Len(mips_file.read) < MaxLines
    /\ \E line \in Lines :
           LET Read(r) == [read |-> Append(mips_file.read, line),
                           functions |-> r.functions,
                           current_function |-> r.current_function,
                           exc |-> r.exc]
           IN  mips_file' = Read(parse_line(mips_file, line))
    /\ UNCHANGED <<typeVars, evalVars, driverVars, unit, frame>>

SpecParse == InitParse /\ [][ParseLine]_vars

(***************************************************************************)
(* Claims about the Type union-find (checked under SpecType).              *)
(***************************************************************************)
RECURSIVE Root(_, _)
\* The representative of term t: the term at the end of its uf_parent chain
Root(ts, t) == IF ts[t].uf_parent = None THEN t ELSE Root(ts, ts[t].uf_parent)

\* a's mask has no bit that b's mask lacks
SubMask(a, b) == BitAnd(a, b) = a

\* C1: in every step (so in every sequence of unify calls that return true),
\* for every term built by a factory, the kind mask and the sign mask of the
\* term's representative gain no bit, and the representative's size, once
\* set, does not change.
C1_MonotoneTypes ==
    [][\A t \in TermIds :
          LET old == types[Root(types, t)]
              new == types'[Root(types', t)]
          IN  /\ SubMask(new.kind, old.kind)
              /\ SubMask(new.sign, old.sign)
              /\ (old.size # None => new.size = old.size)]_vars

\* C1 witness: a unify has returned true and narrowed the kind of the
\* representative of its second argument, whose size got set by the call.
C1_Witness ==
    /\ tcall.op = "unify" /\ tcall.ret = "True" /\ tcall.a # tcall.b
    /\ types[tcall.b].uf_parent # None
    /\ types[Root(types, tcall.b)].kind # types[tcall.b].kind
    /\ types[tcall.b].size = None
    /\ types[Root(types, tcall.b)].size # None

\* What the claim says unify(a, b) computes from the representatives x and y
\* as they are before the call
C2_Size(x, y) == IF types[x].size # None THEN types[x].size ELSE types[y].size

C2_Kind(x, y) ==
    LET k == BitAnd(types[x].kind, types[y].kind)
        s == C2_Size(x, y)
        noFloat == IF s \in {8, 16} /\ BitAnd(k, K_FLOAT) # 0 THEN k - K_FLOAT ELSE k
    IN  IF s \in {8, 16, 64} /\ BitAnd(noFloat, K_PTR) # 0 THEN noFloat - K_PTR
        ELSE noFloat

C2_Sign(x, y) == BitAnd(types[x].sign, types[y].sign)

C2_Joinable(x, y) ==
    /\ ~(types[x].size # None /\ types[y].size # None /\ types[x].size # types[y].size)
    /\ C2_Kind(x, y) # 0
    /\ C2_Sign(x, y) # 0

\* x holds exactly the joined kind, sign and size after the step
C2_Holds(x, y) ==
    /\ types'[x].kind = C2_Kind(x, y)
    /\ types'[x].sign = C2_Sign(x, y)
    /\ types'[x].size = IF C2_Kind(x, y) = K_PTR THEN 32 ELSE C2_Size(x, y)

\* C2 as stated: unify(a, b) returns true exactly when x is y or the join is
\* non-empty, and on success (x is y included) x holds exactly the joined
\* kind, sign and size.
C2_AsStated ==
    [][tcall'.op = "unify" =>
          LET x == Root(types, tcall'.a)
              y == Root(types, tcall'.b)
          IN  /\ (tcall'.ret = "True") <=> (x = y \/ C2_Joinable(x, y))
              /\ (tcall'.ret = "True" => C2_Holds(x, y))]_vars

\* C2 amended: unify(a, b) returns true exactly when x is y or the join is
\* non-empty; on success with x and y distinct, x holds exactly the joined
\* kind, sign and size (32 when the kind is exactly PTR); when x is y the
\* call leaves x's kind, sign and size as they were.
C2_UnifyResult ==
    [][tcall'.op = "unify" =>
          LET x == Root(types, tcall'.a)
              y == Root(types, tcall'.b)
          IN  /\ (tcall'.ret = "True") <=> (x = y \/ C2_Joinable(x, y))
              /\ (tcall'.ret = "True" /\ x # y => C2_Holds(x, y))
              /\ (x = y =>
                    /\ types'[x].kind = types[x].kind
                    /\ types'[x].sign = types[x].sign
                    /\ types'[x].size = types[x].size)]_vars

\* C2 witness: a unify of two distinct representatives has returned true and
\* left the first with kind exactly PTR and size 32, where the second had no
\* size before the call (its own fields are not touched by the call).
C2_Witness ==
    /\ tcall.op = "unify" /\ tcall.ret = "True"
    /\ types[tcall.b].uf_parent = tcall.a
    /\ types[tcall.a].uf_parent = None
    /\ types[tcall.a].kind = K_PTR /\ types[tcall.a].size = 32
    /\ types[tcall.b].size = None /\ types[tcall.b].kind = K_INTPTR

\* C3: once unify(a, b) has returned true, a and b have the same
\* representative in every later state: the call leaves them with one
\* representative, and no step separates two terms that share one; a
\* get_representative call changes no term's representative, and the term it
\* returns is its own representative.
C3_UnifiedForever ==
    [][/\ (tcall'.op = "unify" /\ tcall'.ret = "True" =>
              Root(types', tcall'.a) = Root(types', tcall'.b))
       /\ \A a \in TermIds, b \in TermIds :
              Root(types, a) = Root(types, b) => Root(types', a) = Root(types', b)
       /\ (tcall'.op = "get_representative" =>
              /\ \A t \in TermIds : Root(types', t) = Root(types, t)
              /\ tcall'.rep = Root(types, tcall'.a)
              /\ Root(types', tcall'.rep) = tcall'.rep)]_vars

\* C3 witness: get_representative has compressed a path of length two: a
\* term that was unified into a class through another term now points at the
\* representative directly, and all three terms are in one class.
C3_Witness ==
    /\ tcall.op = "get_representative" /\ tcall.hops = 2
    /\ \E t \in TermIds, u \in TermIds :
          /\ t # u /\ u # tcall.a /\ t # tcall.a
          /\ tcall.rep = t
          /\ types[tcall.a].uf_parent = t
          /\ types[u].uf_parent = t

(***************************************************************************)
(* Claims about EvalOnceExpr (checked under SpecEval).                     *)
(***************************************************************************)
RECURSIVE Occurrences(_, _)
RECURSIVE OccurrencesIn(_, _)
\* How many times the EvalOnceExpr or PhiExpr `target` occurs in expr without
\* passing through another EvalOnceExpr or PhiExpr
Occurrences(expr, target) ==
    IF expr.tag \in {"EvalOnceExpr", "PhiExpr"}
    THEN IF expr = target THEN 1 ELSE 0
    ELSE OccurrencesIn(dependencies(expr), target)

OccurrencesIn(exprs, target) ==
    IF exprs = <<>> THEN 0
    ELSE Occurrences(Head(exprs), target) + OccurrencesIn(Tail(exprs), target)

\* the uses `target` has received from mark_used calls made by use() of the
\* EvalOnceExpr numbered id
OnBehalf(id, target) ==
    IF <<id, target>> \in DOMAIN mem.behalf THEN mem.behalf[<<id, target>>] ELSE 0

\* C9 as stated: for a non-always-emit EvalOnceExpr, mark_used has been
\* propagated into the wrapped expression exactly once if the expression has
\* been used, and never otherwise; and every EvalOnceExpr or PhiExpr directly
\* reachable from the wrapped expression has then received exactly one use on
\* its behalf, and none before the first use.
C9_AsStated ==
    \A id \in 1..Len(mem.evals) :
        ~mem.evals[id].always_emit =>
            /\ mem.evals[id].propagated = (IF mem.evals[id].num_usages >= 1 THEN 1 ELSE 0)
            /\ \A target \in Evals(mem) \cup Phis(mem) :
                  OnBehalf(id, target) =
                      IF /\ mem.evals[id].num_usages >= 1
                         /\ Occurrences(mem.evals[id].wrapped_expr, target) > 0
                      THEN 1 ELSE 0

\* C9: for a non-always-emit EvalOnceExpr, mark_used has been propagated
\* into the wrapped expression exactly once if the expression has been used
\* (however often), and never otherwise; every EvalOnceExpr or PhiExpr has
\* then received, on its behalf, one use for each of its occurrences directly
\* reachable from the wrapped expression, and none before the first use.
C9_PropagatedOnce ==
    \A id \in 1..Len(mem.evals) :
        ~mem.evals[id].always_emit =>
            /\ mem.evals[id].propagated = (IF mem.evals[id].num_usages >= 1 THEN 1 ELSE 0)
            /\ \A target \in Evals(mem) \cup Phis(mem) :
                  OnBehalf(id, target) =
                      IF mem.evals[id].num_usages >= 1
                      THEN Occurrences(mem.evals[id].wrapped_expr, target)
                      ELSE 0

\* C9 witness: a non-always-emit EvalOnceExpr used more than once, whose
\* wrapped expression holds one EvalOnceExpr twice and has been propagated
\* into; and one whose wrapped expression is a PhiExpr that has its use
C9_Witness ==
    /\ \E id \in 1..Len(mem.evals), e \in Evals(mem) :
          /\ ~mem.evals[id].always_emit
          /\ mem.evals[id].num_usages >= 2
          /\ Occurrences(mem.evals[id].wrapped_expr, e) = 2
          /\ OnBehalf(id, e) = 2
    /\ \E id \in 1..Len(mem.evals), phi \in Phis(mem) :
          /\ ~mem.evals[id].always_emit
          /\ mem.evals[id].wrapped_expr = phi
          /\ OnBehalf(id, phi) = 1

\* the text of the wrapped expression of e, printed in state m
WrappedText(m, e) == str(m, m.evals[e.id].wrapped_expr).s

\* C10 as stated: every str() of an EvalOnceExpr returns the text of the
\* wrapped expression if the expression has at most one use and is not
\* always-emit, and its generated variable name otherwise.
C10_AsStated ==
    [][(printed' # printed /\ printed'.expr.tag = "EvalOnceExpr") =>
          LET e == printed'.expr
          IN  IF mem.evals[e.id].num_usages <= 1 /\ ~mem.evals[e.id].always_emit
              THEN printed'.s = WrappedText(mem, e) /\ printed'.s # mem'.evals[e.id].var
              ELSE printed'.s = mem'.evals[e.id].var /\ printed'.s # WrappedText(mem, e)
      ]_vars

\* C10: every str() of an EvalOnceExpr returns the text of the wrapped
\* expression if the expression has at most one use, always-emit or not, and
\* its generated variable name if it has more than one use.
C10_PrintedForm ==
    [][(printed' # printed /\ printed'.expr.tag = "EvalOnceExpr") =>
          LET e == printed'.expr
          IN  IF mem.evals[e.id].num_usages <= 1
              THEN printed'.s = WrappedText(mem, e) /\ printed'.s # mem'.evals[e.id].var
              ELSE printed'.s = mem'.evals[e.id].var /\ printed'.s # WrappedText(mem, e)
      ]_vars

\* C10 witness: an always-emit EvalOnceExpr that has at most one use has been
\* printed as its wrapped call, whose argument, an EvalOnceExpr that has two
\* uses, has been printed as its variable name
C10_Witness ==
    /\ printed.expr.tag = "EvalOnceExpr"
    /\ mem.evals[printed.expr.id].always_emit
    /\ mem.evals[printed.expr.id].num_usages <= 1
    /\ printed.s = "foo(temp_t0)"
    /\ \E id \in 1..Len(mem.evals) :
          mem.evals[id].num_usages = 2 /\ mem.evals[id].var = "temp_t0"

(***************************************************************************)
(* Claims about the graph driver and assign_phis (checked under Spec).     *)
(***************************************************************************)
\* the nodes of the function
Nodes == 1..Len(prog.nodes)

\* node n has an instruction whose mnemonic no instruction table knows
HasUnknownMnemonic(n) ==
    \E i \in 1..Len(prog.nodes[n].instructions) :
        output_regs_for_instr(prog.nodes[n].instructions[i]).exc

\* C4 as stated: in non-strict mode, for a function that has an unrecognized
\* mnemonic in some block, translate_to_ast returns normally (it never ends
\* by an exception), and once it has returned every node has a BlockInfo,
\* that of a block with an unrecognized mnemonic being a single CommentStmt.
C4_AsStated ==
    (~prog.stop_on_error /\ \E n \in Nodes : HasUnknownMnemonic(n)) =>
        /\ pc # "raised"
        /\ pc = "done" =>
              \A n \in Nodes :
                  /\ blocks[n] # NoBlockInfo
                  /\ HasUnknownMnemonic(n) =>
                        /\ Len(blocks[n].to_write) = 1
                        /\ blocks[n].to_write[1].tag = "CommentStmt"

\* the values the predecessors of node hold for reg in their final register
\* states
FinalValues(node, reg) ==
    [k \in 1..Len(prog.nodes[node].parents) |->
        blocks[prog.nodes[node].parents[k]].final_register_states.contents[reg]]

\* every predecessor of node holds a value for reg, and the values are equal
PredecessorsAgree(node, reg) ==
    LET values == FinalValues(node, reg)
    IN  /\ \A k \in 1..Len(values) : values[k] # NoneExpr
        /\ \A k \in 1..Len(values) : PyEq(values[k], values[1])

\* some block has a SetPhiStmt that assigns phi
HasSetPhiStmt(phi) ==
    \E n \in Nodes :
        \E i \in 1..Len(blocks[n].to_write) :
            blocks[n].to_write[i].tag = "SetPhiStmt" /\ blocks[n].to_write[i].phi = phi

\* some block has a SetPhiStmt that assigns phi or whose source is phi
MentionedInSetPhiStmt(phi) ==
    \E n \in Nodes :
        \E i \in 1..Len(blocks[n].to_write) :
            /\ blocks[n].to_write[i].tag = "SetPhiStmt"
            /\ blocks[n].to_write[i].phi = phi \/ blocks[n].to_write[i].expr = phi

\* the phi of key k has its predecessors' common value as replacement_expr
ReplacedByCommonValue(k) ==
    /\ mem.phis[k].replacement_expr # NoneExpr
    /\ PyEq(mem.phis[k].replacement_expr, FinalValues(k[2], k[1])[1])

\* C5 as stated: after phi resolution, every phi whose node's predecessors
\* all hold equal values for its register has that value as replacement_expr
\* and no SetPhiStmt of any block mentions it.
C5_AsStated ==
    pc = "done" =>
        \A k \in DOMAIN mem.phis :
            PredecessorsAgree(k[2], k[1]) =>
                /\ ReplacedByCommonValue(k)
                /\ ~MentionedInSetPhiStmt(PhiExpr(k[1], k[2]))

\* C5: after phi resolution, every phi that has been used and whose node's
\* predecessors all hold equal values for its register has that value as
\* replacement_expr and no SetPhiStmt assigns it.
C5_EqualValuesReplace ==
    pc = "done" =>
        \A k \in DOMAIN mem.phis :
            (mem.phis[k].num_usages > 0 /\ PredecessorsAgree(k[2], k[1]))
                => /\ ReplacedByCommonValue(k)
                   /\ ~HasSetPhiStmt(PhiExpr(k[1], k[2]))

\* C5 witness: phi resolution has replaced a used phi of a node with two
\* predecessors by the literal both hold, and has set another phi
C5_Witness ==
    /\ pc = "done"
    /\ \E k \in DOMAIN mem.phis :
          /\ mem.phis[k].num_usages > 0
          /\ Len(prog.nodes[k[2]].parents) = 2
          /\ PredecessorsAgree(k[2], k[1])
          /\ mem.phis[k].replacement_expr = Literal(1)
    /\ \E k \in DOMAIN mem.phis : HasSetPhiStmt(PhiExpr(k[1], k[2]))

\* the register file the claim describes for the descent to child: the final
\* contents of the immediate dominator, every clobbered register replaced by
\* the child's PhiExpr when it is always set and removed when it is not
ExpectedContents(child) ==
    LET final == blocks[prog.nodes[child].immediate_dominator].final_register_states
        clobbered == regs_clobbered_until_dominator(prog.nodes, child).regs
    IN  [r \in Regs |->
            IF r \notin clobbered THEN final.contents[r]
            ELSE IF reg_always_set(prog.nodes, child, r, final.contents[r] # NoneExpr).val
            THEN PhiExpr(r, child)
            ELSE NoneExpr]

\* C6: in every step that descends to a dominated child, the register file
\* passed to the child is the parent's final one except that every register
\* of regs_clobbered_until_dominator(child) holds a PhiExpr(reg, child) that
\* did not exist before when reg_always_set holds, and is absent when it
\* does not.
C6_DescentRegisters ==
    [][\A child \in Nodes :
          (passed[child] = NoRegInfo /\ passed'[child] # NoRegInfo /\ child # 1) =>
              /\ passed'[child].contents = ExpectedContents(child)
              /\ \A r \in Regs :
                    passed'[child].contents[r] = PhiExpr(r, child) =>
                        /\ <<r, child>> \notin DOMAIN mem.phis
                        /\ <<r, child>> \in DOMAIN mem'.phis
      ]_vars

\* C6 witness: a child has been passed a register file in which t0, set in
\* the parent and clobbered by a jal on the way, is removed, v0 is a phi and
\* s0 is the parent's
C6_Witness ==
    \E child \in Nodes :
        /\ child # 1
        /\ passed[child] # NoRegInfo
        /\ LET final == blocks[prog.nodes[child].immediate_dominator].final_register_states
           IN  /\ final.contents["t0"] # NoneExpr
               /\ passed[child].contents["t0"] = NoneExpr
               /\ passed[child].contents["v0"] = PhiExpr("v0", child)
               /\ passed[child].contents["s0"] = final.contents["s0"]
               /\ final.contents["s0"] # NoneExpr

\* the name the claim gives the n-th named phi of register reg
ExpectedPhiName(reg, n) ==
    IF n = 1 THEN "phi_" \o reg ELSE "phi_" \o reg \o "_" \o ToString(n)

\* how many of the first k phis of phi_vars are phis of register reg
NamedBefore(k, reg) ==
    Cardinality({j \in 1..k : mem.stack_info.phi_vars[j].reg = reg})

\* C7: after phi resolution the phis named for a register carry the names
\* phi_r, phi_r_2, phi_r_3, ... in the order they were named, no two phis
\* have the same name, and every used phi that has no replacement_expr and
\* propagates to itself has a name.
C7_PhiNames ==
    pc = "done" =>
        LET phi_vars == mem.stack_info.phi_vars
        IN  /\ \A k \in 1..Len(phi_vars) :
                  mem.phis[PhiKey(phi_vars[k])].name =
                      ExpectedPhiName(phi_vars[k].reg, NamedBefore(k, phi_vars[k].reg))
            /\ \A k1 \in DOMAIN mem.phis, k2 \in DOMAIN mem.phis :
                  (k1 # k2 /\ mem.phis[k1].name # "") =>
                      mem.phis[k1].name # mem.phis[k2].name
            /\ \A i \in 1..Len(mem.used_phis) :
                  LET phi == mem.used_phis[i]
                  IN  (/\ mem.phis[PhiKey(phi)].replacement_expr = NoneExpr
                       /\ propagates_to(mem, phi) = phi)
                          => mem.phis[PhiKey(phi)].name # ""

\* C7 witness: two phis of t0 are named phi_t0 and phi_t0_2 in that order
C7_Witness ==
    /\ pc = "done"
    /\ Len(mem.stack_info.phi_vars) >= 2
    /\ mem.phis[PhiKey(mem.stack_info.phi_vars[1])].name = "phi_t0"
    /\ mem.phis[PhiKey(mem.stack_info.phi_vars[2])].name = "phi_t0_2"

\* a statement translate_node_body appended
TranslatorProduced(stmt) == stmt.tag \in {"EvalOnceStmt", "StoreStmt"}

\* C8: in every to_write list the statements translate_node_body appended
\* are in the order of their instructions and every SetPhiStmt comes after
\* them; assign_phis is called at most once, only when every node has its
\* BlockInfo, and has been called once when translate_to_ast has returned.
C8_StatementOrder ==
    /\ \A n \in Nodes :
          blocks[n] # NoBlockInfo =>
              \A i \in 1..Len(blocks[n].to_write), j \in 1..Len(blocks[n].to_write) :
                  i < j =>
                      LET a == blocks[n].to_write[i]
                          b == blocks[n].to_write[j]
                      IN  /\ (TranslatorProduced(a) /\ TranslatorProduced(b))
                                 => a.instr <= b.instr
                          /\ a.tag = "SetPhiStmt" => b.tag = "SetPhiStmt"
    /\ assign_phis_calls <= 1
    /\ assign_phis_calls = 1 => \A n \in Nodes : blocks[n] # NoBlockInfo
    /\ pc = "done" => assign_phis_calls = 1

\* C8 witness: translate_to_ast has returned and a block holds the
\* EvalOnceStmt of its first instruction, the StoreStmt of its second and
\* then a SetPhiStmt
C8_Witness ==
    /\ pc = "done"
    /\ \E n \in Nodes :
          /\ Len(blocks[n].to_write) = 3
          /\ blocks[n].to_write[1].tag = "EvalOnceStmt"
          /\ blocks[n].to_write[2].tag = "StoreStmt"
          /\ blocks[n].to_write[3].tag = "SetPhiStmt"

(***************************************************************************)
(* Claims about single operations (checked under SpecUnit).                *)
(***************************************************************************)
\* C13 as stated: get_stack_var never fails; it returns a LocalVar for an
\* offset in [local_vars_region_bottom, allocated_stack_size), a PassedInArg
\* at offset - allocated_stack_size for an offset at or above
\* allocated_stack_size, a SubroutineArg for an offset below the save area of
\* a non-leaf, and a LocalVar for every other offset.
C13_AsStated ==
    unit.op = "get_stack_var" =>
        LET info == unit.stack_info
            save_area == {info.callee_save_reg_locations[r] :
                             r \in DOMAIN info.callee_save_reg_locations}
                         \cup {info.return_addr_location}
        IN  /\ unit.ret.exc = ""
            /\ unit.ret.expr =
                  IF unit.location >= info.allocated_stack_size
                  THEN PassedInArg(unit.location - info.allocated_stack_size, TRUE,
                                   <<"arg", unit.location - info.allocated_stack_size>>)
                  ELSE IF unit.location >= info.local_vars_region_bottom
                  THEN LocalVar(unit.location)
                  ELSE IF ~info.is_leaf /\ \A k \in save_area : unit.location < k
                  THEN SubroutineArg(unit.location)
                  ELSE LocalVar(unit.location)

\* C16: reading a register that holds a non-copied PassedInArg at offset k
\* returns a PassedInArg at offset k with copied = true whose type is the
\* interned type of argument slot k; offset k is among the discovered
\* arguments, which are sorted by offset with one entry per offset and
\* otherwise those discovered before; the register file is unchanged.
C16_ReadPassedInArg ==
    unit.op = "getitem" /\ unit.regs.contents[unit.key].tag = "PassedInArg"
                        /\ ~unit.regs.contents[unit.key].copied =>
        LET k == unit.regs.contents[unit.key].value
            before == unit.m.stack_info.arguments
            arguments == unit.ret.m.stack_info.arguments
        IN  /\ unit.ret.exc = ""
            /\ unit.ret.expr = PassedInArg(k, TRUE, <<"arg", k>>)
            /\ <<"arg", k>> \in unit.ret.m.stack_info.unique_type_map
            /\ \A i \in 1..Len(arguments) : arguments[i].type = <<"arg", arguments[i].value>>
            /\ \A i, j \in 1..Len(arguments) : i < j => arguments[i].value < arguments[j].value
            /\ {arguments[i].value : i \in 1..Len(arguments)} =
                   {before[i].value : i \in 1..Len(before)} \cup {k}
            /\ unit.after = unit.regs
            /\ unit.after.contents[unit.key] = PassedInArg(k, FALSE, <<"initial", "a0">>)

\* a read of a1 holding the non-copied argument at offset 4 when the
\* arguments at 0 and 8 were discovered before: 4 goes between them
C16_Witness ==
    /\ unit.op = "getitem"
    /\ unit.key = "a1"
    /\ unit.regs.contents["a1"] = PassedInArg(4, FALSE, <<"initial", "a0">>)
    /\ Len(unit.m.stack_info.arguments) = 2
    /\ Len(unit.ret.m.stack_info.arguments) = 3
    /\ unit.ret.m.stack_info.arguments[2] = unit.ret.expr

\* C17: after regs[r] = e with r f0 or v0, return_reg holds e; after
\* regs[r] = None with r f0 or v0, r and return_reg are both absent; a set of
\* any other register (one that is not return_reg itself) leaves return_reg
\* as it was; every set adds the register to written_in_block, removes none,
\* and leaves every register other than r and return_reg as it was.
C17_SetMirrorsReturnReg ==
    unit.op = "setitem" =>
        LET before == unit.regs
            after == unit.ret
        IN  /\ after.contents[unit.key] = unit.value
            /\ unit.key \in {"f0", "v0"} => after.contents["return_reg"] = unit.value
            /\ unit.key \in {"f0", "v0"} /\ unit.value = NoneExpr =>
                   /\ after.contents[unit.key] = NoneExpr
                   /\ after.contents["return_reg"] = NoneExpr
            /\ unit.key \notin {"f0", "v0", "return_reg"} =>
                   after.contents["return_reg"] = before.contents["return_reg"]
            /\ unit.key \in after.written_in_block
            /\ before.written_in_block \subseteq after.written_in_block
            /\ \A r \in Regs \ {unit.key, "return_reg"} :
                   after.contents[r] = before.contents[r]

\* v0, holding a value while return_reg holds another, is deleted: both are
\* absent afterwards and v0 is newly marked as written
C17_Witness ==
    /\ unit.op = "setitem"
    /\ unit.key = "v0"
    /\ unit.value = NoneExpr
    /\ unit.regs.contents["v0"] = Literal(7)
    /\ unit.regs.contents["return_reg"] = Literal(8)
    /\ unit.ret.contents["v0"] = NoneExpr
    /\ unit.ret.contents["return_reg"] = NoneExpr
    /\ "v0" \notin unit.regs.written_in_block
    /\ "v0" \in unit.ret.written_in_block

\* C18 as stated: two expressions of one variant, the variant not being
\* EvalOnceExpr or PhiExpr, are equal exactly when their fields other than
\* type are equal.
C18_AsStated ==
    unit.op = "eq" /\ unit.a.tag = unit.b.tag
                   /\ unit.a.tag \notin {"EvalOnceExpr", "PhiExpr"} =>
        (unit.eq <=> \A f \in DOMAIN unit.a \ {"type", "oid"} : unit.a[f] = unit.b[f])

\* C18, corrected: two expressions of one of the variants LocalVar,
\* PassedInArg, SubroutineArg, StructAccess, GlobalSymbol, Literal and
\* AddressOf are equal exactly when their fields other than type (and, for
\* PassedInArg, other than copied) are equal; two expressions of one of the
\* variants BinaryOp, UnaryOp, Cast, FuncCall, EvalOnceExpr and PhiExpr are
\* equal only when they are one object; expressions of different variants are
\* unequal; and the equality is the same before and after a unify of the two
\* types, whatever it does to them.
C18_EqualityIgnoresType ==
    unit.op = "eq" =>
        LET same_object ==
                CASE unit.a.tag \in {"BinaryOp", "UnaryOp", "Cast", "FuncCall"} ->
                         unit.a.oid = unit.b.oid
                  [] unit.a.tag = "EvalOnceExpr" -> unit.a.id = unit.b.id
                  [] unit.a.tag = "PhiExpr" ->
                         unit.a.reg = unit.b.reg /\ unit.a.node = unit.b.node
                  [] OTHER -> FALSE
        IN  /\ unit.a.tag # unit.b.tag => ~unit.eq
            /\ unit.a.tag = unit.b.tag =>
                  IF unit.a.tag \in {"BinaryOp", "UnaryOp", "Cast", "FuncCall",
                                     "EvalOnceExpr", "PhiExpr"}
                  THEN unit.eq <=> same_object
                  ELSE unit.eq <=> \A f \in DOMAIN unit.a \ {"type", "copied"} :
                                       unit.a[f] = unit.b[f]
            /\ unit.eq_after = unit.eq

\* two literals of value 1, one typed any and one s32, are equal before the
\* unify, which changes the type seen through the first, and equal after it
C18_Witness ==
    /\ unit.op = "eq"
    /\ unit.a.tag = "Literal" /\ unit.b.tag = "Literal"
    /\ unit.a.value = unit.b.value
    /\ unit.a.type # unit.b.type
    /\ unit.unified = "True"
    /\ unit.a_after.type # unit.a.type
    /\ unit.a_after.type = unit.b_after.type
    /\ unit.eq /\ unit.eq_after

\* C19 as stated: a type whose representative's kind is none of exactly PTR,
\* exactly FLOAT and exactly INT prints as `?` or `?<size>`.
C19_AsStated ==
    unit.op = "str" /\ unit.type.kind \notin {K_PTR, K_FLOAT, K_INT} =>
        unit.ret = (IF unit.type.size = None THEN "?" ELSE "?" \o ToString(unit.type.size))

\* C19, corrected: a type prints as `void *` when its representative's kind
\* is exactly PTR, as `f<size>` when exactly FLOAT, as `?` (no size) or
\* `?<size>` when the kind is the full mask INT|PTR|FLOAT, and as
\* `<s|u><size>` for every other kind mask (INT, INT|PTR, INT|FLOAT,
\* PTR|FLOAT); a missing size prints as 32 except after `?`, and the letter
\* is `u` only when the sign is exactly unsigned.
C19_PrintedType ==
    unit.op = "str" =>
        LET bits == IF unit.type.size = None THEN "32" ELSE ToString(unit.type.size)
        IN  CASE unit.type.kind = K_PTR -> unit.ret = "void *"
              [] unit.type.kind = K_FLOAT -> unit.ret = "f" \o bits
              [] unit.type.kind = K_ANY ->
                     unit.ret = (IF unit.type.size = None THEN "?" ELSE "?" \o bits)
              [] unit.type.kind \in {K_INT, K_INTPTR, K_INT + K_FLOAT, K_PTR + K_FLOAT} ->
                     unit.ret = (IF unit.type.sign = UNSIGNED THEN "u" ELSE "s") \o bits
              [] OTHER -> FALSE

\* Type.intptr() prints as s32
C19_Witness ==
    /\ unit.op = "str"
    /\ unit.type.kind = K_INTPTR
    /\ unit.type.size = None
    /\ unit.ret = "s32"

(***************************************************************************)
(* Claims about the translation of a block (checked under SpecBlock).      *)
(***************************************************************************)
\* C11 as stated: when the prologue saves s0 with `sw s0, 16(sp)` and the
\* instruction translated last is the first `lw s0, 16(sp)`, nothing having
\* written s0 in between, the load has not failed, neither instruction has
\* produced a StoreStmt or an EvalOnceStmt, and s0 holds the GlobalSymbol s0
\* it held on entry.
C11_AsStated ==
    LET save == Instruction("sw", <<"s0", "sp">>, 16, "")
        restore == Instruction("lw", <<"s0", "sp">>, 16, "")
        start == frame.function[1]
        block == frame.function[Len(frame.function)]
        saved_at == {k \in 1..Len(start) : start[k] = save}
        statements(to_write, at) ==
            {k \in 1..Len(to_write) :
                /\ to_write[k].tag \in {"StoreStmt", "EvalOnceStmt"}
                /\ to_write[k].instr \in at}
    IN  /\ saved_at # {}
        /\ frame.i >= 1 /\ frame.i <= Len(block) /\ block[frame.i] = restore
        /\ \A b \in 1..Len(frame.function) : \A k \in 1..Len(frame.function[b]) :
               frame.function[b][k] = restore => b = Len(frame.function) /\ k = frame.i
        => /\ frame.tb.exc = ""
           /\ frame.tb.regs.contents["s0"] = GlobalSymbol("s0")
           /\ statements(frame.tb.to_write, {frame.i}) = {}
           /\ Len(frame.function) = 1 => statements(frame.tb.to_write, saved_at) = {}
           /\ Len(frame.function) = 2 =>
                  statements(frame.block_infos[1].to_write, saved_at) = {}

\* the instruction translated last is a load of stack slot 24, a local
\* variable of the layout, it has not failed, and a store of a register
\* other than a callee-save, argument or special register to slot 24 was
\* translated before it, in this block or the one before
LoadedAfterStore ==
    LET block == frame.function[Len(frame.function)]
        info == frame.tb.m.stack_info
    IN  /\ frame.i >= 1 /\ frame.i <= Len(block)
        /\ block[frame.i].mnemonic = "lw" /\ block[frame.i].imm = 24
        /\ frame.tb.exc = ""
        /\ info.local_vars_region_bottom <= 24 /\ 24 < info.allocated_stack_size
        /\ \E b \in 1..Len(frame.function) : \E k \in 1..Len(frame.function[b]) :
               /\ b < Len(frame.function) \/ k < frame.i
               /\ frame.function[b][k].mnemonic = "sw"
               /\ frame.function[b][k].imm = 24
               /\ frame.function[b][k].regs[1] \notin {"a0", "s0", "ra"}

\* the stores of the running block to slot 24 that were not elided, by index
StoresInBlock ==
    LET block == frame.function[Len(frame.function)]
    IN  {k \in 1..frame.i - 1 :
            /\ block[k].mnemonic = "sw" /\ block[k].imm = 24
            /\ block[k].regs[1] \notin {"a0", "s0", "ra"}}

\* the expression the store at index k of the running block stored: the
\* expression under the Cast of its StoreStmt
StoredAt(k) ==
    LET to_write == frame.tb.to_write
        s == CHOOSE s \in 1..Len(to_write) :
                 to_write[s].tag = "StoreStmt" /\ to_write[s].instr = k
    IN  to_write[s].source.expr

\* C12 as stated: the loaded register holds the expression that was stored
\* when the most recent store to the slot is in this block and stored the
\* same register, and LocalVar 24 otherwise.
C12_AsStated ==
    LoadedAfterStore =>
        LET load == frame.function[Len(frame.function)][frame.i]
            last == CHOOSE k \in StoresInBlock : \A j \in StoresInBlock : j <= k
        IN  frame.tb.regs.contents[load.regs[1]] =
                IF /\ StoresInBlock # {}
                   /\ frame.function[Len(frame.function)][last].regs[1] = load.regs[1]
                THEN StoredAt(last)
                ELSE LocalVar(24)

\* C12, corrected: when the most recent non-elided store to the slot in
\* this block stored the register that is loaded, the register holds the
\* stored expression if that is repeatable, and otherwise a new EvalOnceExpr
\* that wraps the stored expression and whose EvalOnceStmt the load emits; in
\* every other case (another register, or no such store in this block) it
\* holds LocalVar 24.
C12_SpillRestore ==
    LoadedAfterStore =>
        LET load == frame.function[Len(frame.function)][frame.i]
            last == CHOOSE k \in StoresInBlock : \A j \in StoresInBlock : j <= k
            value == frame.tb.regs.contents[load.regs[1]]
        IN  IF /\ StoresInBlock # {}
               /\ frame.function[Len(frame.function)][last].regs[1] = load.regs[1]
            THEN IF is_repeatable_expression(StoredAt(last))
                 THEN value = StoredAt(last)
                 ELSE /\ value.tag = "EvalOnceExpr"
                      /\ frame.tb.m.evals[value.id].wrapped_expr = StoredAt(last)
                      /\ frame.tb.to_write[Len(frame.tb.to_write)] =
                             EvalOnceStmt(value, frame.i)
            ELSE value = LocalVar(24)

\* `sw t0, 24(sp)` then, an elided `sw a0, 24(sp)` between them, `lw t0,
\* 24(sp)`: t0 holds the literal 1 that was stored, not the slot
C12_Witness ==
    /\ LoadedAfterStore
    /\ frame.i >= 3
    /\ frame.function[1][frame.i] = Instruction("lw", <<"t0", "sp">>, 24, "")
    /\ frame.function[1][frame.i - 1] = Instruction("sw", <<"a0", "sp">>, 24, "")
    /\ frame.function[1][frame.i - 2] = Instruction("sw", <<"t0", "sp">>, 24, "")
    /\ frame.tb.regs.contents["t0"] = Literal(1)
    /\ frame.tb.local_var_writes[24].reg = "t0"

\* C14: when a jal has just been translated, the register file holds none of
\* the caller-save registers (a0-a3, f12, f14, at, t0-t9, hi, lo,
\* condition_bit); return_reg holds a new EvalOnceExpr, always emitted, that
\* wraps the FuncCall; f0 and v0 each hold a silent reinterpreting Cast of it,
\* v1 a Cast of a Cast of it; every register outside the caller-save list and
\* {f0, v0, v1} holds what it held before the jal.
C14_AfterJal ==
    [][(/\ Len(frame'.function) = Len(frame.function)
        /\ frame'.i = frame.i + 1
        /\ frame'.function[Len(frame'.function)][frame'.i].mnemonic = "jal")
       => LET before == frame.tb.regs.contents
              after == frame'.tb.regs.contents
              call == after["return_reg"]
              evals == frame'.tb.m.evals
          IN  /\ frame'.tb.exc = ""
              /\ \A r \in Regs \cap (CALLER_SAVE_REGS \ {"return_reg"}) : after[r] = NoneExpr
              /\ call.tag = "EvalOnceExpr"
              /\ call.id = Len(frame.tb.m.evals) + 1
              /\ evals[call.id].always_emit
              /\ evals[call.id].wrapped_expr.tag = "FuncCall"
              /\ \A r \in {"f0", "v0"} :
                     /\ after[r].tag = "Cast" /\ after[r].expr = call
                     /\ after[r].reinterpret /\ after[r].silent
              /\ after["f0"] # after["v0"]
              /\ after["v1"].tag = "Cast" /\ after["v1"].expr.tag = "Cast"
              /\ after["v1"].expr.expr = call
              /\ after["v1"].reinterpret /\ ~after["v1"].silent
              /\ after["v1"].expr.reinterpret /\ ~after["v1"].expr.silent
              /\ \A r \in Regs \ (CALLER_SAVE_REGS \cup {"f0", "v0", "v1"}) :
                     after[r] = before[r]
      ]_vars

\* a jal translated after `li a0, 3` and `lw s0, 16(sp)` in the non-leaf:
\* a0, a1, t0 and t1 are gone, s0 still holds what the load gave it, v0 is a
\* Cast of the call
C14_Witness ==
    /\ frame.i = 8
    /\ Len(frame.function) = 1
    /\ frame.function[1][6] = Instruction("li", <<"a0">>, 3, "")
    /\ frame.function[1][7] = Instruction("lw", <<"s0", "sp">>, 16, "")
    /\ frame.function[1][8].mnemonic = "jal"
    /\ \A r \in {"a0", "a1", "t0", "t1"} : frame.tb.regs.contents[r] = NoneExpr
    /\ frame.tb.regs.contents["s0"] = LocalVar(16)
    /\ frame.tb.regs.contents["v0"].tag = "Cast"
    /\ frame.tb.regs.contents["v0"].expr = frame.tb.regs.contents["return_reg"]

\* C15: the FuncCall built at a jal has as arguments the contents of the
\* argument registers in the order of the source's list (a0 before a1), a
\* register that is unset or holds a non-copied PassedInArg being left out,
\* followed by the sources of the pending stores to the subroutine-argument
\* region in ascending order of offset; the pending list is empty after the
\* call. The pending list is empty when a block starts, gains the (source,
\* SubroutineArg) pair of a store whose destination is a SubroutineArg, that
\* store emitting no statement, and is left alone by every other instruction.
C15_CallArguments ==
    [][/\ Len(frame'.function) # Len(frame.function) => frame'.tb.subroutine_args = <<>>
       /\ (/\ Len(frame'.function) = Len(frame.function)
           /\ frame'.i = frame.i + 1
           /\ frame'.tb.exc = "")
          => LET instr == frame'.function[Len(frame'.function)][frame'.i]
                 before == frame.tb.regs.contents
                 waiting == frame.tb.subroutine_args
                 IsPassed(r) == /\ before[r] # NoneExpr
                                /\ before[r].tag = "PassedInArg" => before[r].copied
                 FromRegs == (IF IsPassed("a0") THEN <<before["a0"]>> ELSE <<>>)
                             \o (IF IsPassed("a1") THEN <<before["a1"]>> ELSE <<>>)
                 At0(a) == a.dest.value = 0
                 At4(a) == a.dest.value = 4
                 At8(a) == a.dest.value = 8
                 At12(a) == a.dest.value = 12
                 Sorted == SelectSeq(waiting, At0) \o SelectSeq(waiting, At4)
                           \o SelectSeq(waiting, At8) \o SelectSeq(waiting, At12)
                 call == frame'.tb.m.evals[frame'.tb.regs.contents["return_reg"].id].wrapped_expr
                 info == frame.tb.m.stack_info
                 to_subroutine_arg ==
                     /\ instr.mnemonic = "sw" /\ instr.regs[2] = "sp"
                     /\ instr.regs[1] \notin CALLEE_SAVE_REGS \cup ARGUMENT_REGS \cup SPECIAL_REGS
                     /\ get_stack_var(info, instr.imm, TRUE).expr.tag = "SubroutineArg"
             IN  /\ \A k \in 1..Len(waiting) : waiting[k].dest.value \in {0, 4, 8, 12}
                 /\ instr.mnemonic = "jal" =>
                       /\ call.tag = "FuncCall"
                       /\ call.func_name = instr.sym
                       /\ call.args = FromRegs \o [k \in 1..Len(Sorted) |-> Sorted[k].source]
                       /\ frame'.tb.subroutine_args = <<>>
                 /\ to_subroutine_arg =>
                       /\ Len(frame'.tb.subroutine_args) = Len(waiting) + 1
                       /\ SubSeq(frame'.tb.subroutine_args, 1, Len(waiting)) = waiting
                       /\ frame'.tb.subroutine_args[Len(waiting) + 1].dest =
                              SubroutineArg(instr.imm)
                       /\ frame'.tb.subroutine_args[Len(waiting) + 1].source.tag = "Cast"
                       /\ frame'.tb.subroutine_args[Len(waiting) + 1].source.expr =
                              before[instr.regs[1]]
                       /\ frame'.tb.to_write = frame.tb.to_write
                 /\ instr.mnemonic # "jal" /\ ~to_subroutine_arg =>
                       frame'.tb.subroutine_args = waiting
      ]_vars

\* after `sw t0, 8(sp); sw t1, 4(sp); jal foo` in the non-leaf the call has
\* the value stored at 4 before the value stored at 8, and nothing is pending
C15_Witness ==
    /\ frame.i = 8
    /\ Len(frame.function) = 1
    /\ frame.function[1][6] = Instruction("sw", <<"t0", "sp">>, 8, "")
    /\ frame.function[1][7] = Instruction("sw", <<"t1", "sp">>, 4, "")
    /\ frame.function[1][8].mnemonic = "jal"
    /\ frame.tb.exc = ""
    /\ frame.tb.subroutine_args = <<>>
    /\ LET call == frame.tb.m.evals[frame.tb.regs.contents["return_reg"].id].wrapped_expr
       IN  /\ Len(call.args) = 2
           /\ call.args[1].expr = Literal(2)
           /\ call.args[2].expr = Literal(1)

\* C20 as stated: after `lui v0, 0x1234` and `ori v0, v0, 0x5678` v0 holds
\* the single literal 0x12345678 and neither instruction has emitted a
\* statement; after a `jr ra` that follows them the return value is that
\* literal.
C20_AsStated ==
    LET block == frame.function[Len(frame.function)]
        lui == Instruction("lui", <<"v0">>, 4660, "")
        ori == Instruction("ori", <<"v0", "v0">>, 22136, "")
        emitted(at) == {k \in 1..Len(frame.tb.to_write) : frame.tb.to_write[k].instr \in at}
    IN  /\ (/\ frame.i >= 2 /\ frame.i <= Len(block)
            /\ block[frame.i - 1] = lui /\ block[frame.i] = ori)
           => /\ frame.tb.exc = ""
              /\ frame.tb.regs.contents["v0"] = Literal(305419896)
              /\ emitted({frame.i - 1, frame.i}) = {}
        /\ (/\ frame.i >= 3 /\ frame.i <= Len(block)
            /\ block[frame.i - 2] = lui /\ block[frame.i - 1] = ori
            /\ block[frame.i].mnemonic = "jr")
           => /\ frame.tb.exc = ""
              /\ frame.tb.return_value = Literal(305419896)
              /\ emitted({frame.i - 2, frame.i - 1, frame.i}) = {}

(***************************************************************************)
(* Claims about whole functions (checked under Spec).                      *)
(***************************************************************************)
\* C21 as stated: when translate_to_ast has returned for a function whose
\* only block consists of `jr ra`, the block has no statement, no local
\* variable and no argument has been discovered, and the return value is
\* the symbol v0.
C21_AsStated ==
    (/\ pc = "done"
     /\ Len(prog.nodes) = 1
     /\ prog.nodes[1].instructions = << Instruction("jr", <<"ra">>, 0, "") >>)
    => /\ blocks[1].to_write = <<>>
       /\ mem.stack_info.local_vars = <<>>
       /\ mem.stack_info.arguments = <<>>
       /\ blocks[1].return_value = GlobalSymbol("v0")

(***************************************************************************)
(* Claims about whole blocks (checked under SpecBlock).                    *)
(***************************************************************************)
\* C22 as stated: in the function that opens with `addiu sp, sp, -0x10` and
\* `sw ra, 0xc(sp)`, when `addiu a0, sp, 0x4` and then `jal foo` have been
\* translated, LocalVar 4 is among the discovered locals and the last
\* statement is the always-emitted temporary of the call foo(&sp4); the
\* store of ra has produced no statement, and neither does a reload
\* `lw ra, 0xc(sp)`.
C22_AsStated ==
    LET block == frame.function[1]
        emitted(at) == {k \in 1..Len(frame.tb.to_write) : frame.tb.to_write[k].instr = at}
        InFunction ==
            /\ Len(frame.function) = 1
            /\ frame.i = Len(block)
            /\ frame.i >= 3
            /\ block[1] = Instruction("addiu", <<"sp", "sp">>, -16, "")
            /\ block[2] = Instruction("sw", <<"ra", "sp">>, 12, "")
    IN  /\ (/\ InFunction
            /\ block[frame.i - 1] = Instruction("addiu", <<"a0", "sp">>, 4, "")
            /\ block[frame.i].mnemonic = "jal")
           => /\ frame.tb.exc = ""
              /\ \E k \in 1..Len(frame.tb.m.stack_info.local_vars) :
                     frame.tb.m.stack_info.local_vars[k] = LocalVar(4)
              /\ frame.tb.to_write # <<>>
              /\ LET stmt == frame.tb.to_write[Len(frame.tb.to_write)]
                 IN  /\ stmt.tag = "EvalOnceStmt"
                     /\ stmt.instr = frame.i
                     /\ frame.tb.m.evals[stmt.expr.id].always_emit
                     /\ frame.tb.m.evals[stmt.expr.id].wrapped_expr.tag = "FuncCall"
                     /\ frame.tb.m.evals[stmt.expr.id].wrapped_expr.func_name = "foo"
                     /\ frame.tb.m.evals[stmt.expr.id].wrapped_expr.args
                            = << AddressOf(LocalVar(4)) >>
              /\ emitted(2) = {}
        /\ (/\ InFunction
            /\ block[frame.i] = Instruction("lw", <<"ra", "sp">>, 12, ""))
           => /\ frame.tb.exc = ""
              /\ emitted(2) = {}
              /\ emitted(frame.i) = {}

\* C30 as stated: translating an elided store (sb, sh, sw, swc1 or sdc1 of a
\* callee-save, argument or special register to K(sp) or K(fp)) leaves the
\* state of the translation as it was: to_write, the register file, the
\* discovered locals and arguments, the unified types, the pending
\* subroutine arguments, and no exception.
C30_AsStated ==
    [][(/\ Len(frame'.function) = Len(frame.function)
        /\ frame'.i = frame.i + 1
        /\ LET instr == frame'.function[Len(frame'.function)][frame'.i]
           IN  /\ instr.mnemonic \in CASES_SOURCE_FIRST_EXPRESSION
               /\ instr.regs[1] \in CALLEE_SAVE_REGS \cup ARGUMENT_REGS \cup SPECIAL_REGS
               /\ instr.regs[2] \in {"sp", "fp"})
       => /\ frame'.tb.exc = ""
          /\ frame'.tb.to_write = frame.tb.to_write
          /\ frame'.tb.regs = frame.tb.regs
          /\ frame'.tb.m.stack_info.local_vars = frame.tb.m.stack_info.local_vars
          /\ frame'.tb.m.stack_info.arguments = frame.tb.m.stack_info.arguments
          /\ frame'.tb.m.unified = frame.tb.m.unified
          /\ frame'.tb.subroutine_args = frame.tb.subroutine_args
          /\ frame'.tb.m = frame.tb.m
      ]_vars

(***************************************************************************)
(* Claims about fold_mul_chains (checked under SpecUnit).                  *)
(***************************************************************************)
RECURSIVE Denotes(_, _, _)
\* The integer expression e denotes when the symbols have the values env
Denotes(m, e, env) ==
    CASE e.tag = "Literal" -> e.value
      [] e.tag = "GlobalSymbol" -> env[e.symbol_name]
      [] e.tag = "EvalOnceExpr" -> Denotes(m, m.evals[e.id].wrapped_expr, env)
      [] e.tag = "UnaryOp" -> 0 - Denotes(m, e.expr, env)
      [] e.tag = "BinaryOp" ->
            CASE e.op = "<<" -> Denotes(m, e.left, env) * 2 ^ Denotes(m, e.right, env)
              [] e.op = "*" -> Denotes(m, e.left, env) * Denotes(m, e.right, env)
              [] e.op = "+" -> Denotes(m, e.left, env) + Denotes(m, e.right, env)
              [] e.op = "-" -> Denotes(m, e.left, env) - Denotes(m, e.right, env)

\* Values of the symbols x and y
Environments == {[x |-> 2, y |-> 5], [x |-> -3, y |-> 7], [x |-> 1, y |-> 0]}

RECURSIVE Subexpressions(_, _)
\* The objects reachable from e, the wrapped expression of an EvalOnceExpr
\* included
Subexpressions(m, e) ==
    {e} \cup
    CASE e.tag = "EvalOnceExpr" -> Subexpressions(m, m.evals[e.id].wrapped_expr)
      [] e.tag = "UnaryOp" -> Subexpressions(m, e.expr)
      [] e.tag = "BinaryOp" -> Subexpressions(m, e.left) \cup Subexpressions(m, e.right)
      [] OTHER -> {}

\* C23: fold_mul_chains(e) denotes the same integer as e for every value of
\* the symbols. It returns e itself, or a new product base * N in which N is
\* a literal other than 1, base is an object that occurs in e, and e denotes
\* N times what base denotes. A top-level shift x << k of a symbol x is
\* rewritten (to x * 2^k) exactly when 1 <= k <= 4, and a top-level negation
\* is returned as it is.
C23_FoldPreservesValue ==
    unit.op = "fold_mul_chains" =>
        /\ \A env \in Environments :
               Denotes(unit.m, unit.ret, env) = Denotes(unit.m, unit.expr, env)
        /\ \/ unit.ret = unit.expr
           \/ /\ unit.ret.tag = "BinaryOp"
              /\ unit.ret.oid = unit.m.next_oid
              /\ unit.ret.op = "*"
              /\ unit.ret.right.tag = "Literal"
              /\ unit.ret.right.value # 1
              /\ unit.ret.left \in Subexpressions(unit.m, unit.expr)
              /\ \A env \in Environments :
                     Denotes(unit.m, unit.expr, env)
                         = unit.ret.right.value * Denotes(unit.m, unit.ret.left, env)
        /\ (/\ unit.expr.tag = "BinaryOp" /\ unit.expr.op = "<<"
            /\ unit.expr.left.tag = "GlobalSymbol")
           => IF 1 <= unit.expr.right.value /\ unit.expr.right.value <= 4
              THEN /\ unit.ret.left = unit.expr.left
                   /\ unit.ret.right = Literal(2 ^ unit.expr.right.value)
              ELSE unit.ret = unit.expr
        /\ unit.expr.tag = "UnaryOp" => unit.ret = unit.expr

\* (x << 1) + (x * 3) has been folded to x * 5
C23_Witness ==
    /\ unit.op = "fold_mul_chains"
    /\ unit.expr = BinaryOp(1, BinaryOp(2, GlobalSymbol("x"), "<<", Literal(1)), "+",
                            BinaryOp(3, GlobalSymbol("x"), "*", Literal(3)))
    /\ unit.ret = BinaryOp(unit.m.next_oid, GlobalSymbol("x"), "*", Literal(5))

(***************************************************************************)
(* Claims about parse_file (checked under SpecParse).                      *)
(***************************************************************************)
\* What a line of Lines says, read as assembly: nothing (blank, comment,
\* directive), a label, the start of a function, a jump-table label, or an
\* instruction, with the name or the instruction's text
LineMeaning(line) ==
    CASE line = <<"\n">> ->
            [kind |-> "nothing", text |-> <<>>]
      [] line = <<"#", " ", "c", "\n">> ->
            [kind |-> "nothing", text |-> <<>>]
      [] line = <<"/", "*", "a", "*", "/", "\n">> ->
            [kind |-> "nothing", text |-> <<>>]
      [] line = <<".", "s", "e", "t", " ", "x", "\n">> ->
            [kind |-> "nothing", text |-> <<>>]
      [] line = <<".", "L", "1", ":", "\n">> ->
            [kind |-> "label", text |-> <<"L", "1">>]
      [] line = <<"g", "l", "a", "b", "e", "l", " ", "f", "\n">> ->
            [kind |-> "function", text |-> <<"f">>]
      [] line = <<"g", "l", "a", "b", "e", "l", " ", "g", "\n">> ->
            [kind |-> "function", text |-> <<"g">>]
      [] line = <<"g", "l", "a", "b", "e", "l", " ", "L", "8", "0", "0", "0", "1", "2", "3", "4", "\n">> ->
            [kind |-> "jumptable", text |-> <<"L", "8", "0", "0", "0", "1", "2", "3", "4">>]
      [] line = <<"n", "o", "p", "\n">> ->
            [kind |-> "instruction", text |-> <<"n", "o", "p">>]
      [] line = <<"/", "*", "a", "*", "/", " ", "j", "r", " ", "r", "a", "\n">> ->
            [kind |-> "instruction", text |-> <<"j", "r", " ", "r", "a">>]
      [] line = <<"l", "w", " ", "a", " ", "#", " ", "c", "\n">> ->
            [kind |-> "instruction", text |-> <<"l", "w", " ", "a">>]
      [] line = <<"/", "*", "a", "*", "/", " ", "l", "i", " ", "b", " ", "/", "*", "c", "*", "/", "\n">> ->
            [kind |-> "instruction", text |-> <<"l", "i", " ", "b">>]

RECURSIVE ExpectedFunctions(_)
\* The functions a sequence of lines describes: a function label opens a
\* function; a label, a jump-table label or an instruction is added to the
\* body of the function opened last, a jump-table label to its
\* jumptable_labels as well; every other line adds nothing
ExpectedFunctions(lines) ==
    IF lines = <<>> THEN <<>>
    ELSE LET before == ExpectedFunctions(SubSeq(lines, 1, Len(lines) - 1))
             said == LineMeaning(lines[Len(lines)])
             item == IF said.kind = "instruction"
                     THEN [tag |-> "Instruction", line |-> said.text]
                     ELSE [tag |-> "Label", name |-> said.text]
         IN  IF said.kind = "function"
             THEN Append(before, [name |-> said.text, body |-> <<>>,
                                  jumptable_labels |-> <<>>])
             ELSE IF said.kind = "nothing" \/ before = <<>> THEN before
             ELSE [before EXCEPT
                      ![Len(before)].body = Append(@, item),
                      ![Len(before)].jumptable_labels =
                          IF said.kind = "jumptable" THEN Append(@, item) ELSE @]

\* C24 as stated: whatever lines parse_file has read without raising, the
\* functions of the MIPSFile are those the lines describe: every
\* function's body holds the instructions and labels between its glabel
\* line and the next function's, in file order; a glabel named like
\* L[0-9A-F]{8} is a label of the current function's body and of its
\* jumptable_labels, and opens no function; comments, blank lines and
\* directives add nothing.
C24_AsStated ==
    mips_file.exc = "" => mips_file.functions = ExpectedFunctions(mips_file.read)

\* the outcomes of assign_phis: it returns, or one of its assertions or the
\* assertion of RegInfo.__getitem__ fails
AssignPhisOutcomes ==
    {"", "AssertionError"} \cup {"Read from unset register " \o r : r \in Regs}

\* C25: assign_phis terminates: wherever translate_to_ast calls it the call
\* has an outcome, and used_phis, which grows while the loop runs over it,
\* never holds more entries than there are PhiExpr objects. A PhiExpr is
\* appended to used_phis at most once, every entry of used_phis is taken by
\* the resolution loop exactly once, with num_usages > 0 at that time, and
\* no other phi is taken; a phi whose first use comes from the resolution of
\* another phi is among them, so it is resolved before the names are given.
C25_AssignPhisTerminates ==
    /\ (pc = "translate" /\ pending = <<>>) =>
           assign_phis(prog.nodes, mem, blocks).exc \in AssignPhisOutcomes
    /\ Len(mem.used_phis) <= Cardinality(DOMAIN mem.phis)
    /\ \A i, j \in 1..Len(mem.used_phis) : mem.used_phis[i] = mem.used_phis[j] => i = j
    /\ \A k \in DOMAIN mem.phis :
          /\ Len(mem.phis[k].processed) <= 1
          /\ \A i \in 1..Len(mem.phis[k].processed) : mem.phis[k].processed[i] > 0
          /\ mem.phis[k].processed # <<>> =>
                 \E i \in 1..Len(mem.used_phis) : PhiKey(mem.used_phis[i]) = k
          /\ mem.phis[k].late => mem.phis[k].num_usages > 0
          /\ mem.phis[k].name # "" => mem.phis[k].processed # <<>>
    /\ pc = "done" =>
          \A i \in 1..Len(mem.used_phis) :
              Len(mem.phis[PhiKey(mem.used_phis[i])].processed) = 1

\* assign_phis has returned after resolving two phis at least, one of them
\* first used by the resolution of another
C25_Witness ==
    /\ pc = "done"
    /\ Len(mem.used_phis) >= 2
    /\ \E k \in DOMAIN mem.phis : mem.phis[k].late /\ Len(mem.phis[k].processed) = 1

\* C26: once assign_phis has returned, the replacement expression of every
\* phi that has one has been marked used as many times as the phi's final
\* num_usages, the uses made by phis resolved after it included.
C26_AsStated ==
    pc = "done" =>
        \A k \in DOMAIN mem.phis :
            mem.phis[k].replacement_expr # NoneExpr =>
                mem.phis[k].marked = mem.phis[k].num_usages

\* the statements of a block's to_write that set the phi
SetPhiStmts(block_info, phi) ==
    {block_info.to_write[i] : i \in {j \in 1..Len(block_info.to_write) :
        /\ block_info.to_write[j].tag = "SetPhiStmt"
        /\ block_info.to_write[j].phi = phi}}

RECURSIVE AssignedOnEveryPath(_, _, _)
\* the variable of the named phi `var` is set on every edge into the node of
\* phi: the parent writes a statement of phi that sets the variable, or it
\* holds a suppressed one whose expression is a phi that propagates to var
\* and is itself set on every edge into its node. depth bounds the chain of
\* suppressed statements by the number of nodes.
AssignedOnEveryPath(phi, var, depth) ==
    \A n \in 1..Len(prog.nodes) :
        (\E i \in 1..Len(prog.nodes[phi.node].parents) : prog.nodes[phi.node].parents[i] = n) =>
            \E stmt \in SetPhiStmts(blocks[n], phi) :
                IF SetPhiStmt_should_write(mem, stmt).val
                THEN propagates_to(mem, phi) = var
                ELSE /\ depth > 0
                     /\ propagates_to(mem, stmt.expr) = var
                     /\ AssignedOnEveryPath(stmt.expr, var, depth - 1)

\* C27: after translate_to_ast has returned, every named phi is assigned on
\* every path into its node; a SetPhiStmt(P, Q) that is not written because
\* Q propagates to P leaves P assigned all the same, also when Q has a
\* replacement expression.
C27_AsStated ==
    pc = "done" =>
        \A k \in DOMAIN mem.phis :
            mem.phis[k].name # "" =>
                AssignedOnEveryPath(PhiExpr(k[1], k[2]), PhiExpr(k[1], k[2]), Len(prog.nodes))

\* the mnemonics the translation tables know
RecognizedMnemonics ==
    {"nop", "jr", "jal"} \cup CASES_SOURCE_FIRST_EXPRESSION \cup CASES_SOURCE_FIRST_REGISTER
        \cup CASES_BRANCHES \cup CASES_FLOAT_BRANCHES \cup CASES_FLOAT_COMP
        \cup CASES_HI_LO \cup CASES_DESTINATION_FIRST

\* C28: for a flow graph whose instructions all have recognized mnemonics,
\* multu with its undefined high part included, the call of assign_phis
\* never fails the assertion 'Read from unset register': a register that
\* got a phi is set at the end of every parent of the phi's node. Stated for
\* the translations none of whose blocks was replaced by an error comment.
C28_AsStated ==
    (/\ pc = "translate"
     /\ pending = <<>>
     /\ \A n \in 1..Len(prog.nodes) :
           /\ \A i \in 1..Len(prog.nodes[n].instructions) :
                 prog.nodes[n].instructions[i].mnemonic \in RecognizedMnemonics
           /\ \A i \in 1..Len(blocks[n].to_write) :
                 blocks[n].to_write[i].tag # "CommentStmt")
    => assign_phis(prog.nodes, mem, blocks).exc
           \notin {"Read from unset register " \o r : r \in Regs}

RECURSIVE NodesUntilDominator(_, _, _)
\* the nodes on the paths from the immediate dominator of a node to the
\* node, both excluded, walked backwards from the node's parents
NodesUntilDominator(stack, seen, dominator) ==
    IF stack = <<>> THEN seen \ {dominator}
    ELSE IF Head(stack) \in seen THEN NodesUntilDominator(Tail(stack), seen, dominator)
    ELSE NodesUntilDominator(Tail(stack) \o prog.nodes[Head(stack)].parents,
                             seen \cup {Head(stack)}, dominator)

\* some instruction of the block writes v0 or f0
WritesReturnRegister(n) ==
    \E i \in 1..Len(prog.nodes[n].instructions) :
        LET instr == prog.nodes[n].instructions[i]
        IN  \/ instr.mnemonic = "jal"
            \/ instr.mnemonic \in CASES_DESTINATION_FIRST /\ instr.regs[1] \in {"v0", "f0"}

\* C29: return_reg follows v0 and f0 across block boundaries. After a
\* translation without error blocks, for every node C with an immediate
\* dominator: if a block on a path from the dominator to C writes v0 or f0,
\* the return_reg of the register file C was translated with is a phi of C
\* or is absent, not the value the dominator ended with.
C29_AsStated ==
    (/\ pc = "done"
     /\ \A n \in 1..Len(prog.nodes) :
           \A i \in 1..Len(blocks[n].to_write) : blocks[n].to_write[i].tag # "CommentStmt")
    => \A C \in 1..Len(prog.nodes) :
           (/\ prog.nodes[C].immediate_dominator # 0
            /\ \E n \in NodesUntilDominator(prog.nodes[C].parents,
                                            {prog.nodes[C].immediate_dominator},
                                            prog.nodes[C].immediate_dominator) :
                   WritesReturnRegister(n))
           => passed[C].contents["return_reg"] \in {NoneExpr, PhiExpr("return_reg", C)}

====
